---- MODULE Spec2Model ----
(***************************************************************************)
(* Dump ingestion of the spanner-migration-tool: the MySQL dump processor  *)
(* (sources/mysql/mysqldump.go), the two-pass import driver                *)
(* (import_file/import_from_dump.go, cmd/import.go) and the batched writer *)
(* it feeds (import_data/utils.go).                                        *)
(***************************************************************************)
EXTENDS Integers, Sequences, FiniteSets, TLC

(***************************************************************************)
(* Bounds of the model.                                                    *)
(***************************************************************************)
\* Longest dump, in lines.
MaxLines == 3
\* BatchWriterConfig.WriteLimit, BytesLimit and RetryLimit, scaled down
\* (import_data/utils.go:15-17 sets 2000, 100*1000*1000 and 1000).
WriteLimit == 2
BytesLimit == 3
RetryLimit == 2
\* Rows appended in the stand-alone writer specification, and their sizes.
MaxAppends == 4
MaxRowBytes == 3
\* Value tuples of one INSERT in the stand-alone decomposition specification.
MaxTuples == 3

(***************************************************************************)
(* Generic helpers.                                                        *)
(***************************************************************************)
\* LET v == .. IN Op(v), with v evaluated once.
With(v, Op(_)) == Op(v)

Put(f, k, v) == [x \in (DOMAIN f) \cup {k} |-> IF x = k THEN v ELSE f[x]]

Get(f, k, d) == IF k \in DOMAIN f THEN f[k] ELSE d

Range(s) == {s[i] : i \in 1..Len(s)}

RECURSIVE Flatten(_)
Flatten(ss) == IF ss = <<>> THEN <<>> ELSE Head(ss) \o Flatten(Tail(ss))

SeqsUpTo(S, n) == UNION {[1..k -> S] : k \in 0..n}

(***************************************************************************)
(* Identifiers.  internal.GenerateTableId and its siblings draw from       *)
(* process-wide counters; an id is the kind's letter and the counter.      *)
(***************************************************************************)
IdPool ==
    [t |-> <<"t1", "t2", "t3", "t4", "t5", "t6", "t7", "t8">>,
     c |-> <<"c1", "c2", "c3", "c4", "c5", "c6", "c7", "c8", "c9", "c10", "c11", "c12", "c13", "c14", "c15", "c16">>,
     f |-> <<"f1", "f2", "f3", "f4", "f5", "f6", "f7", "f8">>,
     i |-> <<"i1", "i2", "i3", "i4", "i5", "i6", "i7", "i8">>,
     e |-> <<"e1", "e2", "e3", "e4", "e5", "e6", "e7", "e8">>,
     cc |-> <<"cc1", "cc2", "cc3", "cc4", "cc5", "cc6", "cc7", "cc8">>]

\* The id the next call of the generator of kind k returns.
GenerateId(conv, k) == IdPool[k][conv.Counters[k] + 1]

\* The context once that id has been handed out.
Advance(conv, k) == [conv EXCEPT !.Counters[k] = @ + 1]

(***************************************************************************)
(* The conversion context (internal.Conv): mode, schemas, statistics.      *)
(***************************************************************************)
StmtTypes == {"CreateTableStmt", "AlterTableStmt", "SetStmt", "InsertStmt",
              "CreateIndexStmt", "DropTableStmt", "CreateTrigStmt", "DropTrigStmt",
              "CreateProcedureStmt", "DropProcedureStmt",
              "CreateFunctionStmt", "DropFunctionStmt"}

NoStmtStat == [Schema |-> 0, Data |-> 0, Skip |-> 0, Error |-> 0]

MakeConv ==
    [mode |-> "schema",
     SrcSchema |-> <<>>,
     SpSchema |-> <<>>,
     SpSequences |-> <<>>,
     Rows |-> <<>>,
     BadRows |-> <<>>,
     Reparsed |-> 0,
     Statement |-> [s \in StmtTypes |-> NoStmtStat],
     Unexpecteds |-> 0,
     SampleBadRows |-> <<>>,
     SyntheticPKeys |-> <<>>,
     TimezoneOffset |-> "",
     Counters |-> [t |-> 0, c |-> 0, f |-> 0, i |-> 0, e |-> 0, cc |-> 0],
     Panic |-> FALSE]

SchemaMode(conv) == conv.mode = "schema"

DataMode(conv) == conv.mode = "data"

SetSchemaMode(conv) == [conv EXCEPT !.mode = "schema"]

SetDataMode(conv) == [conv EXCEPT !.mode = "data"]

Unexpected(conv) == [conv EXCEPT !.Unexpecteds = @ + 1]

SchemaStatement(conv, ty) == [conv EXCEPT !.Statement[ty].Schema = @ + 1]

DataStatement(conv, ty) == [conv EXCEPT !.Statement[ty].Data = @ + 1]

SkipStatement(conv, ty) == [conv EXCEPT !.Statement[ty].Skip = @ + 1]

ErrorInStatement(conv, ty) == [conv EXCEPT !.Statement[ty].Error = @ + 1]

StatsAddBadRow(conv, name, dataMode) ==
    IF dataMode THEN [conv EXCEPT !.BadRows = Put(@, name, Get(@, name, 0) + 1)] ELSE conv

CollectBadRow(conv, name, vals) ==
    [conv EXCEPT !.SampleBadRows = Append(@, [table |-> name, vals |-> vals])]

\* A run-time panic of the Go code (index out of range, nil dereference).
Panicked(conv) == [conv EXCEPT !.Panic = TRUE]

logStmtError(conv, ty) == ErrorInStatement(Unexpected(conv), ty)

(***************************************************************************)
(* Parsed statements (github.com/pingcap/tidb/parser/ast), as far as the   *)
(* dump processor reads them.  A table name is the list of its components  *)
(* (schema, name), which getTableName joins with ".".                      *)
(***************************************************************************)
NilTable == [nil |-> TRUE, Schema |-> "", Name |-> ""]

TableName(n) == [nil |-> FALSE, Schema |-> "", Name |-> n]

NilName == "<nil>"

NilTp == [nil |-> TRUE, id |-> "", paren |-> FALSE, mods |-> <<>>, modsOk |-> TRUE, elems |-> 0]

Tp(id) == [nil |-> FALSE, id |-> id, paren |-> FALSE, mods |-> <<>>, modsOk |-> TRUE, elems |-> 0]

NoRefer == [Table |-> NilTable, Cols |-> <<>>, OnDelete |-> "", OnUpdate |-> ""]

Refer(t, cols) == [Table |-> TableName(t), Cols |-> cols, OnDelete |-> "", OnUpdate |-> ""]

Option(tp) == [Tp |-> tp, nullDefault |-> FALSE, Refer |-> NoRefer]

\* One key column of an index or constraint, with its declared direction.
IndexPartSpecification(n, desc) == [Column |-> n, Desc |-> desc]

ColumnDef(n, tp, opts) == [Name |-> n, Tp |-> tp, Options |-> opts]

Constraint(tp, name, keys, refer) == [Tp |-> tp, Name |-> name, Keys |-> keys, Refer |-> refer, Expr |-> ""]

CreateTableStmt(t, cols, cons) ==
    [type |-> "CreateTableStmt", Table |-> t, Cols |-> cols, Constraints |-> cons]

AlterTableStmt(t, specs) == [type |-> "AlterTableStmt", Table |-> t, Specs |-> specs]

CreateIndexStmt(t, name, unique, keys) ==
    [type |-> "CreateIndexStmt", Table |-> t, IndexName |-> name, Unique |-> unique, Keys |-> keys]

SetStmt(vars) == [type |-> "SetStmt", Variables |-> vars]

InsertStmt(t, cols, lists) ==
    [type |-> "InsertStmt", Table |-> t, Columns |-> cols, Lists |-> lists]

OtherStmt(ty) == [type |-> ty]

(***************************************************************************)
(* Source schema records (schema.Table, schema.Column, ...), Go zero       *)
(* values included.                                                        *)
(***************************************************************************)
ZeroColumn ==
    [Name |-> "", Id |-> "",
     Type |-> [Name |-> "", Mods |-> <<>>, ArrayBounds |-> <<>>],
     NotNull |-> FALSE,
     Ignored |-> [Check |-> FALSE, AutoIncrement |-> FALSE, Default |-> FALSE]]

ZeroForeignKey ==
    [Id |-> "", Name |-> "", ColumnNames |-> <<>>, ColIds |-> <<>>,
     ReferTableName |-> <<>>, ReferTableId |-> "",
     ReferColumnNames |-> <<>>, ReferColumnIds |-> <<>>,
     OnDelete |-> "", OnUpdate |-> ""]

ZeroTable ==
    [Id |-> "", Name |-> <<>>, ColIds |-> <<>>, ColNameIdMap |-> <<>>, ColDefs |-> <<>>,
     PrimaryKeys |-> <<>>, ForeignKeys |-> <<>>, Indexes |-> <<>>, CheckConstraints |-> <<>>]

Key(colId) == [ColId |-> colId, Desc |-> FALSE]

FK_NO_ACTION == "NO ACTION"

\* The ids of the source tables called name; Go iterates the schema map in
\* no fixed order, so a lookup by name returns any one of them.
TableIdsByName(schema, name) == {id \in DOMAIN schema : schema[id].Name = name}

LookupResults(schema, name) ==
    IF TableIdsByName(schema, name) = {} THEN {""} ELSE TableIdsByName(schema, name)

(***************************************************************************)
(* sources/mysql/mysqldump.go: schema building.                            *)
(***************************************************************************)
getTableName(table) ==
    IF table.Name = ""
    THEN [err |-> TRUE, name |-> <<>>]
    ELSE [err |-> FALSE,
          name |-> IF table.Schema # "" THEN <<table.Schema, table.Name>> ELSE <<table.Name>>]

\* checkEmpty that records nothing.
checkEmptySilent(conv, pkeys) == conv

\* checkEmpty: a warning when a primary key is being overwritten.
checkEmpty(conv, pkeys) == IF Len(pkeys) # 0 THEN Unexpected(conv) ELSE conv

RECURSIVE toSchemaKeys(_, _)
toSchemaKeys(columns, colNameToIdMap) ==
    IF columns = <<>> THEN <<>>
    ELSE (IF Head(columns).Column \in DOMAIN colNameToIdMap
          THEN <<Key(colNameToIdMap[Head(columns).Column])>>
          ELSE <<>>) \o toSchemaKeys(Tail(columns), colNameToIdMap)

\* toForeignKeys: the result, the context after it, Panic set when the
\* referenced column list is shorter than the key's (referColumns[i]).
toForeignKeys(conv, fk) ==
    LET rt == getTableName(fk.Refer.Table) IN
    IF rt.err
    THEN [conv |-> Unexpected(conv), fkey |-> ZeroForeignKey]
    ELSE IF Len(fk.Refer.Cols) < Len(fk.Keys)
    THEN [conv |-> Panicked(conv), fkey |-> ZeroForeignKey]
    ELSE [conv |-> Advance(conv, "f"),
          fkey |-> [ZeroForeignKey EXCEPT
                      !.Id = GenerateId(conv, "f"),
                      !.Name = fk.Name,
                      !.ColumnNames = [i \in 1..Len(fk.Keys) |-> fk.Keys[i].Column],
                      !.ReferTableName = rt.name,
                      !.ReferColumnNames = SubSeq(fk.Refer.Cols, 1, Len(fk.Keys)),
                      !.OnDelete = IF fk.Refer.OnDelete = "" THEN FK_NO_ACTION ELSE fk.Refer.OnDelete,
                      !.OnUpdate = IF fk.Refer.OnUpdate = "" THEN FK_NO_ACTION ELSE fk.Refer.OnUpdate]]

RECURSIVE updateCols(_, _, _, _)
updateCols(ct, colNames, colDef, colNameToIdMap) ==
    IF colNames = <<>> THEN colDef
    ELSE LET cid == Get(colNameToIdMap, Head(colNames).Column, "")
             cd == Get(colDef, cid, ZeroColumn)
             cd2 == IF ct = "Check" THEN [cd EXCEPT !.Ignored.Check = TRUE]
                    ELSE IF ct = "PrimaryKey" THEN [cd EXCEPT !.NotNull = TRUE]
                    ELSE cd
         IN updateCols(ct, Tail(colNames), Put(colDef, cid, cd2), colNameToIdMap)

processConstraintBody(conv, tableId, constraint, stmtType, colNameToIdMap) ==
    LET st == Get(conv.SrcSchema, tableId, ZeroTable)
        store(c, t) == [c EXCEPT !.SrcSchema = Put(@, tableId, t)]
    IN CASE constraint.Tp = "PrimaryKey" ->
              store(checkEmpty(conv, st.PrimaryKeys),
                    [st EXCEPT !.PrimaryKeys = toSchemaKeys(constraint.Keys, colNameToIdMap),
                               !.ColDefs = updateCols("PrimaryKey", constraint.Keys, st.ColDefs, colNameToIdMap)])
         [] constraint.Tp = "ForeignKey" ->
              LET r == toForeignKeys(conv, constraint) IN
              IF r.conv.Panic THEN r.conv
              ELSE store(r.conv, [st EXCEPT !.ForeignKeys = Append(@, r.fkey)])
         [] constraint.Tp = "Index" ->
              store(Advance(conv, "i"),
                    [st EXCEPT !.Indexes = Append(@, [Name |-> constraint.Name, Id |-> GenerateId(conv, "i"),
                         Unique |-> FALSE, Keys |-> toSchemaKeys(constraint.Keys, colNameToIdMap)])])
         [] constraint.Tp = "Uniq" ->
              store(Advance(conv, "i"),
                    [st EXCEPT !.Indexes = Append(@, [Name |-> constraint.Name, Id |-> GenerateId(conv, "i"),
                         Unique |-> TRUE, Keys |-> toSchemaKeys(constraint.Keys, colNameToIdMap)])])
         [] OTHER ->
              store(conv, [st EXCEPT !.ColDefs = updateCols(constraint.Tp, constraint.Keys, st.ColDefs, colNameToIdMap)])

processConstraint(conv, tableId, constraint, stmtType, colNameToIdMap) ==
    processConstraintBody(conv, tableId, constraint, stmtType, colNameToIdMap)

RECURSIVE getCheckConstraints(_, _)
\* The check constraints of a statement and the context after their ids.
getCheckConstraints(conv, constraints) ==
    IF constraints = <<>> THEN [conv |-> conv, ccs |-> <<>>]
    ELSE IF Head(constraints).Tp = "Check"
    THEN LET cc == [Name |-> Head(constraints).Name,
                    Expr |-> <<"(", Head(constraints).Expr, ")">>,
                    ExprId |-> GenerateId(conv, "e"),
                    Id |-> GenerateId(conv, "cc")]
             rest == getCheckConstraints(Advance(Advance(conv, "e"), "cc"), Tail(constraints))
         IN [conv |-> rest.conv, ccs |-> <<cc>> \o rest.ccs]
    ELSE getCheckConstraints(conv, Tail(constraints))

getTypeModsAndID(conv, tp) ==
    IF tp.paren
    THEN IF tp.id \in {"set", "enum"} THEN [conv |-> conv, id |-> tp.id, mods |-> <<>>]
         ELSE IF ~tp.modsOk THEN [conv |-> Unexpected(conv), id |-> tp.id, mods |-> <<>>]
         ELSE [conv |-> conv, id |-> tp.id, mods |-> tp.mods]
    ELSE [conv |-> conv, id |-> tp.id, mods |-> <<>>]

getArrayBounds(tp) == IF tp.id = "set" THEN <<tp.elems>> ELSE <<>>

NoColumnConstraint == [isPk |-> FALSE, isUniqueKey |-> FALSE, fk |-> ZeroForeignKey]

RECURSIVE updateColsByOption(_, _, _, _, _)
\* The column, its constraints and the context after the options opts.
updateColsByOption(conv, colName, opts, column, cc) ==
    IF opts = <<>> \/ conv.Panic THEN [conv |-> conv, column |-> column, cc |-> cc]
    ELSE LET op == Head(opts)
             next(c, col, k) == updateColsByOption(c, colName, Tail(opts), col, k)
         IN CASE op.Tp = "PrimaryKey" ->
                   next(conv, [column EXCEPT !.NotNull = TRUE], [cc EXCEPT !.isPk = TRUE])
              [] op.Tp = "NotNull" -> next(conv, [column EXCEPT !.NotNull = TRUE], cc)
              [] op.Tp = "AutoIncrement" ->
                   next(conv, [column EXCEPT !.Ignored.AutoIncrement = TRUE], cc)
              [] op.Tp = "DefaultValue" ->
                   next(conv, IF op.nullDefault THEN column
                              ELSE [column EXCEPT !.Ignored.Default = TRUE], cc)
              [] op.Tp = "UniqKey" -> next(conv, column, [cc EXCEPT !.isUniqueKey = TRUE])
              [] op.Tp = "Check" -> next(conv, [column EXCEPT !.Ignored.Check = TRUE], cc)
              [] op.Tp = "Reference" ->
                   LET rt == getTableName(op.Refer.Table) IN
                   IF rt.err THEN next(Unexpected(conv), column, cc)
                   ELSE IF op.Refer.Cols = <<>> THEN next(Panicked(conv), column, cc)
                   ELSE next(conv, column,
                             [cc EXCEPT !.fk = [ZeroForeignKey EXCEPT
                                  !.ColumnNames = <<colName>>,
                                  !.ReferTableName = rt.name,
                                  !.ReferColumnNames = <<op.Refer.Cols[1]>>,
                                  !.OnDelete = op.Refer.OnDelete,
                                  !.OnUpdate = op.Refer.OnUpdate]])
              [] OTHER -> next(conv, column, cc)

processColumn(conv, col) ==
    IF col.Name = NilName \/ col.Tp.nil
    THEN [err |-> TRUE, conv |-> conv, name |-> "", column |-> ZeroColumn, cc |-> NoColumnConstraint]
    ELSE LET tm == getTypeModsAndID(conv, col.Tp)
             column == [ZeroColumn EXCEPT !.Name = col.Name,
                            !.Type = [Name |-> tm.id, Mods |-> tm.mods, ArrayBounds |-> getArrayBounds(col.Tp)]]
             r == updateColsByOption(tm.conv, col.Name, col.Options, column, NoColumnConstraint)
         IN [err |-> FALSE, conv |-> r.conv, name |-> col.Name, column |-> r.column, cc |-> r.cc]

RECURSIVE createCols(_, _, _)
\* The loop of processCreateTable over the column definitions; acc carries
\* the collections built so far.
createCols(conv, cols, acc) ==
    IF cols = <<>> THEN [acc EXCEPT !.conv = conv]
    ELSE With(processColumn(conv, Head(cols)), LAMBDA r :
         IF r.conv.Panic THEN [acc EXCEPT !.conv = r.conv]
         ELSE IF r.err THEN [acc EXCEPT !.conv = r.conv, !.err = TRUE]
         ELSE With(GenerateId(r.conv, "c"), LAMBDA id :
              With(Advance(r.conv, "c"), LAMBDA c1 :
              createCols(IF r.cc.isUniqueKey THEN Advance(c1, "i") ELSE c1, Tail(cols),
                     [acc EXCEPT
                        !.colDef = Put(@, id, [r.column EXCEPT !.Id = id]),
                        !.colIds = Append(@, id),
                        !.colNameIdMap = Put(@, r.column.Name, id),
                        !.keys = IF r.cc.isPk THEN Append(@, Key(id)) ELSE @,
                        !.fkeys = IF r.cc.fk.ColumnNames # <<>> THEN Append(@, r.cc.fk) ELSE @,
                        !.index = IF r.cc.isUniqueKey
                                  THEN Append(@, [Name |-> "", Id |-> GenerateId(c1, "i"),
                                                  Unique |-> TRUE, Keys |-> <<Key(id)>>])
                                  ELSE @]))))

RECURSIVE applyConstraints(_, _, _, _, _)
applyConstraints(conv, tableId, constraints, stmtType, colNameToIdMap) ==
    IF constraints = <<>> \/ conv.Panic THEN conv
    ELSE applyConstraints(
             processConstraint(conv, tableId, Head(constraints), stmtType, colNameToIdMap),
             tableId, Tail(constraints), stmtType, colNameToIdMap)

\* processCreateTable once the table name is known and its id is taken.
createTable(conv, stmt, tableId, name) ==
    With(getCheckConstraints(conv, stmt.Constraints), LAMBDA chk :
    With(createCols(chk.conv, stmt.Cols,
             [conv |-> chk.conv, err |-> FALSE, colIds |-> <<>>, colDef |-> <<>>,
              colNameIdMap |-> <<>>, keys |-> <<>>, fkeys |-> <<>>, index |-> <<>>]), LAMBDA r :
    IF r.conv.Panic THEN r.conv
    ELSE IF r.err THEN logStmtError(r.conv, stmt.type)
    ELSE applyConstraints(
             [SchemaStatement(r.conv, stmt.type) EXCEPT !.SrcSchema =
                 Put(@, tableId,
                     [Id |-> tableId, Name |-> name, ColIds |-> r.colIds,
                      ColNameIdMap |-> r.colNameIdMap, ColDefs |-> r.colDef,
                      PrimaryKeys |-> r.keys, ForeignKeys |-> r.fkeys,
                      Indexes |-> r.index, CheckConstraints |-> chk.ccs])],
             tableId, stmt.Constraints, "CREATE TABLE", r.colNameIdMap)))

processCreateTableBody(conv, stmt) ==
    IF stmt.Table.nil THEN logStmtError(conv, stmt.type)
    ELSE With(getTableName(stmt.Table), LAMBDA tn :
         IF tn.err THEN logStmtError(Advance(conv, "t"), stmt.type)
         ELSE createTable(Advance(conv, "t"), stmt, GenerateId(conv, "t"), tn.name))

processCreateTable(conv, stmt) == processCreateTableBody(conv, stmt)

\* One AlterTableModifyColumn item of processAlterTable; stop is set when
\* the statement is abandoned.
alterModifyColumn(conv, stmt, tbl, item) ==
    With(processColumn(conv, item.NewColumns[1]), LAMBDA r :
    IF r.conv.Panic THEN [conv |-> r.conv, stop |-> TRUE]
    ELSE IF r.err THEN [conv |-> logStmtError(r.conv, stmt.type), stop |-> TRUE]
    ELSE With(Get(tbl.ColNameIdMap, r.name, ""), LAMBDA colId :
         With([r.conv EXCEPT !.SrcSchema[tbl.Id].ColDefs = Put(@, colId, [r.column EXCEPT !.Id = colId])], LAMBDA c1 :
         With(IF r.cc.isPk
                   THEN [checkEmpty(c1, c1.SrcSchema[tbl.Id].PrimaryKeys)
                            EXCEPT !.SrcSchema[tbl.Id].PrimaryKeys = <<Key(colId)>>]
                   ELSE c1, LAMBDA c2 :
         With(IF r.cc.fk.ColIds # <<>>
                   THEN [c2 EXCEPT !.SrcSchema[tbl.Id].ForeignKeys = Append(@, r.cc.fk)]
                   ELSE c2, LAMBDA c3 :
         With(IF r.cc.isUniqueKey
                   THEN [c3 EXCEPT !.SrcSchema[tbl.Id].Indexes =
                            Append(@, [Name |-> "", Id |-> "", Unique |-> TRUE, Keys |-> <<Key(r.name)>>])]
                   ELSE c3, LAMBDA c4 :
         [conv |-> SchemaStatement(c4, stmt.type), stop |-> FALSE]))))))

RECURSIVE alterSpecs(_, _, _, _)
alterSpecs(conv, stmt, tbl, specs) ==
    IF specs = <<>> \/ conv.Panic THEN conv
    ELSE With(Head(specs), LAMBDA item :
         CASE item.Tp = "AddConstraint" ->
                With(processConstraint(conv, tbl.Id, item.Constraint, "ALTER TABLE", tbl.ColNameIdMap), LAMBDA c1 :
                IF c1.Panic THEN c1
                ELSE alterSpecs(SchemaStatement(c1, stmt.type), stmt, tbl, Tail(specs)))
           [] item.Tp = "ModifyColumn" ->
                With(alterModifyColumn(conv, stmt, tbl, item), LAMBDA r :
                IF r.stop THEN r.conv ELSE alterSpecs(r.conv, stmt, tbl, Tail(specs)))
           [] OTHER -> alterSpecs(SkipStatement(conv, stmt.type), stmt, tbl, Tail(specs)))

\* tid is what internal.GetSrcTableByName found for the statement's table
\* name ("" when no table has that name).
processAlterTableBody(conv, stmt, tid) ==
    IF stmt.Table.nil THEN logStmtError(conv, stmt.type)
    ELSE IF getTableName(stmt.Table).err THEN logStmtError(conv, stmt.type)
    ELSE IF tid # "" THEN alterSpecs(conv, stmt, conv.SrcSchema[tid], stmt.Specs)
    ELSE SkipStatement(conv, stmt.type)

processAlterTable(conv, stmt, tid) == processAlterTableBody(conv, stmt, tid)

processCreateIndex(conv, stmt, tid) ==
    IF stmt.Table.nil THEN logStmtError(conv, stmt.type)
    ELSE IF getTableName(stmt.Table).err THEN logStmtError(conv, stmt.type)
    ELSE IF tid # ""
    THEN [Advance(conv, "i") EXCEPT !.SrcSchema[tid].Indexes =
             Append(@, [Name |-> stmt.IndexName, Id |-> GenerateId(conv, "i"), Unique |-> stmt.Unique,
                        Keys |-> toSchemaKeys(stmt.Keys, conv.SrcSchema[tid].ColNameIdMap)])]
    ELSE SkipStatement(Unexpected(conv), stmt.type)

RECURSIVE setVariables(_, _, _)
setVariables(conv, stmt, vars) ==
    IF vars = <<>> THEN conv
    ELSE LET v == Head(vars) IN
         IF v.Name = "TIME_ZONE"
         THEN IF v.kind = "ValueExpr"
              THEN IF v.val = NilName THEN logStmtError(conv, stmt.type)
                   ELSE setVariables([conv EXCEPT !.TimezoneOffset = v.val], stmt, Tail(vars))
              ELSE conv
         ELSE setVariables(conv, stmt, Tail(vars))

processSetStmt(conv, stmt) == setVariables(conv, stmt, stmt.Variables)

(***************************************************************************)
(* sources/mysql/mysqldump.go: INSERT statements.  A row is the list of    *)
(* its value nodes and, for the checks only, its place in the dump (pos:   *)
(* line number, then number of the tuple in the line).                     *)
(***************************************************************************)
ValueExpr(v) == [node |-> "ValueExpr", v |-> v]

ColumnNameExpr(n) == [node |-> "ColumnNameExpr", v |-> n]

Row(vals, pos) == [vals |-> vals, pos |-> pos]

RECURSIVE getValsLoop(_)
getValsLoop(row) ==
    IF row = <<>> THEN [err |-> FALSE, values |-> <<>>]
    ELSE IF Head(row).node = "ValueExpr"
    THEN LET rest == getValsLoop(Tail(row)) IN
         IF rest.err THEN rest ELSE [err |-> FALSE, values |-> <<Head(row).v>> \o rest.values]
    ELSE [err |-> TRUE, values |-> <<>>]

\* getVals that takes a node of any kind for a value.
getValsLenient(row) == [err |-> FALSE, values |-> [i \in 1..Len(row) |-> "1"]]

getVals(row) == IF Len(row) = 0 THEN [err |-> TRUE, values |-> <<>>] ELSE getValsLoop(row)

getCols(stmt) ==
    IF stmt.Columns = <<>> THEN [err |-> TRUE, cols |-> <<>>] ELSE [err |-> FALSE, cols |-> stmt.Columns]

\* internal.GetColIdFromSrcName: the id of the column called name, "" if none.
GetColIdFromSrcName(colDefs, name) ==
    IF \E id \in DOMAIN colDefs : colDefs[id].Name = name
    THEN CHOOSE id \in DOMAIN colDefs : colDefs[id].Name = name
    ELSE ""

\* common.IntersectionOfTwoStringSlices: the elements of b that occur in a.
IntersectionOfTwoStringSlices(a, b) == SelectSeq(b, LAMBDA v : v \in Range(a))

\* common.PrepareValues: the values of the common columns, an error when
\* the row does not have one value per named column.
PrepareValues(colNameIdMap, commonColIds, srcCols, values) ==
    IF Len(values) # Len(srcCols) THEN [err |-> TRUE, values |-> <<>>]
    ELSE LET valOf(id) == values[CHOOSE i \in 1..Len(srcCols) : Get(colNameIdMap, srcCols[i], "") = id] IN
         [err |-> FALSE,
          values |-> [k \in 1..Len(commonColIds) |->
                        IF \E i \in 1..Len(srcCols) : Get(colNameIdMap, srcCols[i], "") = commonColIds[k]
                        THEN valOf(commonColIds[k]) ELSE ""]]

Digits == {"1", "2", "3"}

ZeroSpTable == [Name |-> <<>>, Id |-> "", ColIds |-> <<>>, ColDefs |-> <<>>, PrimaryKeys |-> <<>>]

\* Whether ConvertData can turn the literal v into a value of target type ty.
Convertible(v, ty) == ty = "STRING" \/ v \in Digits

\* The size of a mutation as the writer counts it.
ByteSize(vals) == Len(vals)

\* ProcessDataRow (sources/mysql/data.go): convert the values; a conversion
\* error makes the row bad, otherwise the row goes to the data sink, with a
\* fresh synth_id value when the table has a synthetic key.
ProcessDataRow(conv, tableId, colIds, srcSchema, spSchema, vals, pos) ==
    IF \E k \in 1..Len(colIds) : ~Convertible(vals[k], spSchema.ColDefs[colIds[k]].T)
    THEN [conv |-> CollectBadRow(StatsAddBadRow(Unexpected(conv), srcSchema.Name, DataMode(conv)),
                                 srcSchema.Name, vals),
          out |-> <<>>]
    ELSE LET synth == tableId \in DOMAIN conv.SyntheticPKeys
             seq == IF synth THEN conv.SyntheticPKeys[tableId].Sequence ELSE 0
         IN [conv |-> IF synth THEN [conv EXCEPT !.SyntheticPKeys[tableId].Sequence = @ + 1] ELSE conv,
             out |-> <<[table |-> spSchema.Name,
                        cols |-> IF synth THEN Append(colIds, conv.SyntheticPKeys[tableId].ColId) ELSE colIds,
                        vals |-> vals, synth |-> IF synth THEN seq + 1 ELSE 0,
                        bytes |-> ByteSize(vals), pos |-> pos]>>]

\* processInsertStmt up to its loop over the rows: go says whether the loop
\* is entered.  tid is what internal.GetTableIdFromSrcName found.
insertPrelude(conv, stmt, tid) ==
    LET stop(c) == [go |-> FALSE, conv |-> c, srcCols |-> <<>>, commonColIds |-> <<>>]
        tn == getTableName(stmt.Table)
        srcTable == tn.name
    IN IF stmt.Table.nil THEN stop(logStmtError(conv, stmt.type))
       ELSE IF tn.err THEN stop(logStmtError(conv, stmt.type))
       ELSE IF SchemaMode(conv)
       THEN stop(DataStatement([conv EXCEPT !.Rows = Put(@, srcTable, Get(@, srcTable, 0) + Len(stmt.Lists))],
                               stmt.type))
       ELSE IF tid \notin DOMAIN conv.SrcSchema
       THEN stop([Unexpected(conv) EXCEPT
                    !.BadRows = Put(@, srcTable, Get(@, srcTable, 0) + Get(conv.Rows, srcTable, 0))])
       ELSE LET src == conv.SrcSchema[tid]
                named == getCols(stmt)
                srcCols == IF named.err THEN [i \in 1..Len(src.ColIds) |-> src.ColDefs[src.ColIds[i]].Name]
                           ELSE named.cols
                srcColIds == IF named.err THEN src.ColIds
                             ELSE [i \in 1..Len(named.cols) |-> GetColIdFromSrcName(src.ColDefs, named.cols[i])]
            IN IF named.err /\ Len(srcColIds) = 0
               THEN stop([Unexpected(conv) EXCEPT
                            !.BadRows = Put(@, srcTable, Get(@, srcTable, 0) + Get(conv.Rows, srcTable, 0))])
               ELSE IF stmt.Lists = <<>> THEN stop(logStmtError(conv, stmt.type))
               ELSE [go |-> TRUE, conv |-> conv, srcCols |-> srcCols,
                     commonColIds |-> IntersectionOfTwoStringSlices(
                                          Get(conv.SpSchema, tid, [ColIds |-> <<>>]).ColIds, srcColIds)]

\* RowBad without the bad-row count.
RowBadUncounted(conv, srcSchema, values) ==
    CollectBadRow(Unexpected(conv), srcSchema.Name, values)

RowBad(conv, srcSchema, values) ==
    CollectBadRow(StatsAddBadRow(Unexpected(conv), srcSchema.Name, DataMode(conv)), srcSchema.Name, values)

\* One iteration of the row loop of processInsertStmt: the context after
\* it and what it hands to the data sink (one mutation or none).
insertRow(conv, tid, pre, row) ==
    LET srcSchema == conv.SrcSchema[tid]
        gv == getVals(row.vals)
        nv == PrepareValues(srcSchema.ColNameIdMap, pre.commonColIds, pre.srcCols, gv.values)
    IN IF nv.err
       THEN [conv |-> RowBad(conv, srcSchema, gv.values), out |-> <<>>]
       ELSE ProcessDataRow(conv, tid, pre.commonColIds, srcSchema,
                           Get(conv.SpSchema, tid, ZeroSpTable), nv.values, row.pos)

RECURSIVE insertRows(_, _, _, _)
insertRows(conv, tid, pre, rows) ==
    IF rows = <<>> THEN [conv |-> conv, out |-> <<>>]
    ELSE LET r == insertRow(conv, tid, pre, Head(rows))
             rest == insertRows(r.conv, tid, pre, Tail(rows))
         IN [conv |-> rest.conv, out |-> r.out \o rest.out]

\* processInsertStmt as a whole: the context after it and the mutations it
\* hands to the data sink, in order.
processInsertStmt(conv, stmt, tid) ==
    LET pre == insertPrelude(conv, stmt, tid) IN
    IF pre.go THEN insertRows(pre.conv, tid, pre, stmt.Lists)
    ELSE [conv |-> pre.conv, out |-> <<>>]

(***************************************************************************)
(* Dump text.  The value list of an INSERT is kept character by character  *)
(* (valuesRegexp and the statement parser read it); of every other line    *)
(* only what readAndParseChunk and handleParseError look at is kept: the   *)
(* ";", the statements the parser makes of it or the class of its error    *)
(* message, and the words the repair heuristics search for.                *)
(***************************************************************************)
TupleKinds == {"ok", "id", "syn", "str"}

\* (1)   (x)   (!)   (')')
TupleText(k) ==
    CASE k = "ok" -> <<"(", "1", ")">>
      [] k = "id" -> <<"(", "x", ")">>
      [] k = "syn" -> <<"(", "!", ")">>
      [] k = "str" -> <<"(", "'", ")", "'", ")">>

RECURSIVE ValuesText(_)
\* (..),(..),(..);
ValuesText(kinds) ==
    IF Len(kinds) = 1 THEN TupleText(kinds[1]) \o <<";">>
    ELSE TupleText(Head(kinds)) \o <<",">> \o ValuesText(Tail(kinds))

Line(semi, perr, stmts) ==
    [semi |-> semi, admin |-> FALSE, perr |-> perr, stmts |-> stmts, ndelim |-> 0, words |-> {},
     ins |-> "", icols |-> <<>>, vtext |-> <<>>, spatial |-> "", fixed |-> <<>>]

\* What ReadLine returns at end of stream.
EmptyLine == Line(FALSE, "", <<>>)

\* INSERT INTO t VALUES (..),(..);
InsertLine(t, kinds) == [Line(TRUE, "", <<>>) EXCEPT !.ins = t, !.vtext = ValuesText(kinds)]

\* The position of the first character of text at or after i that is in
\* stops, 0 if there is none.
FirstOf(text, i, stops) ==
    IF \E j \in i..Len(text) : text[j] \in stops
    THEN CHOOSE j \in i..Len(text) : text[j] \in stops /\ \A k \in i..(j - 1) : text[k] \notin stops
    ELSE 0

\* The statement parser on one value: a number, an identifier or a quoted
\* string (whatever its text, the value "str").  end is the position of the
\* last character of the value.
ParseValue(text, i) ==
    IF i > Len(text) THEN [ok |-> FALSE, end |-> 0, node |-> ValueExpr("")]
    ELSE IF text[i] \in Digits THEN [ok |-> TRUE, end |-> i, node |-> ValueExpr(text[i])]
    ELSE IF text[i] = "x" THEN [ok |-> TRUE, end |-> i, node |-> ColumnNameExpr(text[i])]
    ELSE IF text[i] = "'"
    THEN LET q == FirstOf(text, i + 1, {"'"}) IN
         IF q = 0 THEN [ok |-> FALSE, end |-> 0, node |-> ValueExpr("")]
         ELSE [ok |-> TRUE, end |-> q, node |-> ValueExpr("str")]
    ELSE [ok |-> FALSE, end |-> 0, node |-> ValueExpr("")]

RECURSIVE ParseTuples(_, _, _, _)
\* The statement parser on the value list from position i on: tuples
\* separated by commas, then ";".
ParseTuples(text, i, lineNo, n) ==
    IF i + 2 > Len(text) \/ text[i] # "(" THEN [ok |-> FALSE, rows |-> <<>>]
    ELSE LET v == ParseValue(text, i + 1) IN
         IF ~v.ok \/ v.end + 1 > Len(text) \/ text[v.end + 1] # ")" THEN [ok |-> FALSE, rows |-> <<>>]
         ELSE LET row == Row(<<v.node>>, <<lineNo, n>>)
                  j == v.end + 2
              IN IF j = Len(text) /\ text[j] = ";" THEN [ok |-> TRUE, rows |-> <<row>>]
                 ELSE IF j < Len(text) /\ text[j] = ","
                 THEN LET rest == ParseTuples(text, j + 1, lineNo, n + 1) IN
                      IF rest.ok THEN [ok |-> TRUE, rows |-> <<row>> \o rest.rows] ELSE rest
                 ELSE [ok |-> FALSE, rows |-> <<>>]

\* parser.Parse on one line that [lineNo] holds.
ParseLine(line, lineNo) ==
    IF line.ins # ""
    THEN LET r == ParseTuples(line.vtext, 1, lineNo, 1) IN
         IF r.ok THEN [perr |-> "", stmts |-> <<InsertStmt(TableName(line.ins), line.icols, r.rows)>>]
         ELSE [perr |-> "syntax", stmts |-> <<>>]
    ELSE [perr |-> line.perr, stmts |-> line.stmts]

RECURSIVE ParseFrom(_, _)
\* parser.Parse on a chunk: the statements of its lines, or the error of
\* the first line that has one.  l is a list of [line, no].
ParseFrom(l, i) ==
    IF i > Len(l) THEN [perr |-> "", stmts |-> <<>>]
    ELSE LET r == ParseLine(l[i].line, l[i].no) IN
         IF r.perr # "" THEN r
         ELSE LET rest == ParseFrom(l, i + 1) IN
              IF rest.perr # "" THEN rest ELSE [perr |-> "", stmts |-> r.stmts \o rest.stmts]

Parse(l) == ParseFrom(l, 1)

RECURSIVE FindAllString(_, _)
\* valuesRegexp.FindAllString(text, -1) with valuesRegexp = \((.*?)\): from
\* the left, each "(" up to the first ")" after it on the same line.
FindAllString(text, i) ==
    LET p == FirstOf(text, i, {"("}) IN
    IF p = 0 THEN <<>>
    ELSE LET q == FirstOf(text, p + 1, {")", "\n"}) IN
         IF q = 0 THEN <<>>
         ELSE IF text[q] = "\n" THEN FindAllString(text, p + 1)
         ELSE <<SubSeq(text, p, q)>> \o FindAllString(text, q + 1)

(***************************************************************************)
(* sources/mysql/mysqldump.go: reading and repairing chunks.               *)
(***************************************************************************)
RECURSIVE reparseValues(_, _, _, _, _, _)
\* The loop of handleInsertStatement over the matched value tuples.
reparseValues(conv, values, k, t, icols, lineNo) ==
    IF k > Len(values) THEN [conv |-> conv, stmts |-> <<>>]
    ELSE LET r == ParseTuples(values[k] \o <<";">>, 1, lineNo, k) IN
         IF ~r.ok
         THEN reparseValues(SkipStatement(IF SchemaMode(conv) THEN Unexpected(conv) ELSE conv, "InsertStmt"),
                            values, k + 1, t, icols, lineNo)
         ELSE LET rest == reparseValues(conv, values, k + 1, t, icols, lineNo) IN
              [conv |-> rest.conv, stmts |-> <<InsertStmt(TableName(t), icols, r.rows)>> \o rest.stmts]

handleInsertStatementBody(conv, chunk, t, icols, lineNo) ==
    LET values == FindAllString(chunk, 1) IN
    IF Len(values) = 0 THEN [conv |-> conv, stmts |-> <<>>, ok |-> FALSE]
    ELSE LET r == reparseValues(conv, values, 1, t, icols, lineNo) IN
         [conv |-> r.conv, stmts |-> r.stmts, ok |-> TRUE]

\* chunk is the text after the INSERT INTO t (icols) VALUES prefix.
handleInsertStatement(conv, chunk, t, icols, lineNo) ==
    handleInsertStatementBody(conv, chunk, t, icols, lineNo)

skipUnsupported(conv, words) ==
    LET createOrdrop == IF "drop" \in words THEN "Drop" ELSE "Create" IN
    CASE "trigger" \in words ->
           [conv |-> SkipStatement(conv, IF createOrdrop = "Drop" THEN "DropTrigStmt" ELSE "CreateTrigStmt"),
            ok |-> TRUE]
      [] "procedure" \in words ->
           [conv |-> SkipStatement(conv, IF createOrdrop = "Drop" THEN "DropProcedureStmt" ELSE "CreateProcedureStmt"),
            ok |-> TRUE]
      [] "function" \in words ->
           [conv |-> SkipStatement(conv, IF createOrdrop = "Drop" THEN "DropFunctionStmt" ELSE "CreateFunctionStmt"),
            ok |-> TRUE]
      [] OTHER -> [conv |-> conv, ok |-> FALSE]

\* The chunk with its spatial types rewritten to text, parsed again.
handleSpatialDatatype(conv, l) ==
    IF ~SchemaMode(conv) THEN [conv |-> conv, stmts |-> <<>>, ok |-> TRUE]
    ELSE IF \E i \in 1..Len(l) : l[i].line.perr # "" /\ l[i].line.spatial # "fixable"
    THEN [conv |-> conv, stmts |-> <<>>, ok |-> FALSE]
    ELSE [conv |-> conv,
          stmts |-> Flatten([i \in 1..Len(l) |->
                       IF l[i].line.perr # "" THEN l[i].line.fixed ELSE ParseLine(l[i].line, l[i].no).stmts]),
          ok |-> TRUE]

Sum(f, n) == LET RECURSIVE S(_)
                 S(i) == IF i = 0 THEN 0 ELSE f[i] + S(i - 1)
             IN S(n)

\* The text of the chunk after its first INSERT INTO .. VALUES prefix,
\* which is in line i.
ValuesChunk(l, i) ==
    Flatten([k \in 1..(Len(l) - i + 1) |->
               IF k = 1 THEN l[i].line.vtext ELSE <<"\n">> \o l[i + k - 1].line.vtext])

\* perr is the class of the parser's error message.
handleParseErrorBody(conv, l, perr) ==
    LET fail == [conv |-> conv, stmts |-> <<>>, ok |-> FALSE] IN
    IF perr \in {"unsupported", "delimiter"}
    THEN IF Sum([i \in 1..Len(l) |-> l[i].line.ndelim], Len(l)) = 1 THEN fail
         ELSE LET r == skipUnsupported(conv, UNION {l[i].line.words : i \in 1..Len(l)}) IN
              [conv |-> r.conv, stmts |-> <<>>, ok |-> r.ok]
    ELSE IF \E i \in 1..Len(l) : l[i].line.ins # ""
    THEN LET i == CHOOSE i \in 1..Len(l) : l[i].line.ins # "" /\ \A k \in 1..(i - 1) : l[k].line.ins = "" IN
         handleInsertStatement(conv, ValuesChunk(l, i), l[i].line.ins, l[i].line.icols, l[i].no)
    ELSE IF perr = "spatial"
    THEN handleSpatialDatatype(IF SchemaMode(conv) THEN Unexpected(conv) ELSE conv, l)
    ELSE fail

handleParseError(conv, l, perr) == handleParseErrorBody(conv, l, perr)

\* internal.Reader over the dump: the next line, or the empty line and the
\* end-of-stream flag once the dump is exhausted.
ReadLine(r) ==
    IF r.pos <= Len(r.dump)
    THEN [r |-> [r EXCEPT !.pos = @ + 1], b |-> [line |-> r.dump[r.pos], no |-> r.pos]]
    ELSE [r |-> [r EXCEPT !.EOF = TRUE], b |-> [line |-> EmptyLine, no |-> r.pos]]

\* handle is the open stream the reader reads from, closed the streams of
\* the dump that were closed.
NewReader(dump) == [dump |-> dump, pos |-> 1, EOF |-> FALSE, handle |-> 1, closed |-> {}]

\* resetReader that keeps the offset of a stream it could seek in.
resetReaderNoSeek(rd, seekOk, openOk) ==
    IF seekOk THEN [r |-> [rd EXCEPT !.EOF = FALSE], err |-> FALSE]
    ELSE [r |-> [rd EXCEPT !.pos = 1, !.EOF = FALSE, !.handle = @ + 1, !.closed = @ \cup {rd.handle}],
          err |-> ~openOk]

\* resetReader: seek to offset 0; when the seek fails, close the stream and
\* open the dump again.  seekOk and openOk say whether Seek and Open succeed.
resetReader(rd, seekOk, openOk) ==
    IF seekOk THEN [r |-> [rd EXCEPT !.pos = 1, !.EOF = FALSE], err |-> FALSE]
    ELSE IF openOk
    THEN [r |-> [rd EXCEPT !.pos = 1, !.EOF = FALSE, !.handle = @ + 1, !.closed = @ \cup {rd.handle}],
          err |-> FALSE]
    ELSE [r |-> [rd EXCEPT !.closed = @ \cup {rd.handle}], err |-> TRUE]

RECURSIVE readAndParseChunkFrom(_, _, _)
\* The loop of readAndParseChunk; l holds the lines read so far.
readAndParseChunkFrom(conv, r, l) ==
    With(ReadLine(r), LAMBDA rd :
    With(Append(l, rd.b), LAMBDA l2 :
    IF rd.b.line.semi \/ rd.r.EOF
    THEN IF Len(l2) = 1 /\ rd.b.line.admin
         THEN [conv |-> conv, r |-> rd.r, stmts |-> <<>>, err |-> FALSE, lines |-> 0]
         ELSE With(Parse(l2), LAMBDA tree :
              IF tree.perr = ""
              THEN [conv |-> conv, r |-> rd.r, stmts |-> tree.stmts, err |-> FALSE, lines |-> 0]
              ELSE With(handleParseError(conv, l2, tree.perr), LAMBDA h :
                   IF h.ok
                   THEN [conv |-> h.conv, r |-> rd.r, stmts |-> h.stmts, err |-> FALSE, lines |-> 0]
                   ELSE IF rd.r.EOF
                   THEN [conv |-> [h.conv EXCEPT !.Reparsed = @ + 1], r |-> rd.r, stmts |-> <<>>,
                         err |-> TRUE, lines |-> Len(l2)]
                   ELSE readAndParseChunkFrom([h.conv EXCEPT !.Reparsed = @ + 1], rd.r, l2)))
    ELSE readAndParseChunkFrom(conv, rd.r, l2)))

\* readAndParseChunk that reports no error at end of stream.
readAndParseChunkSilent(conv, r) == [readAndParseChunkFrom(conv, r, <<>>) EXCEPT !.err = FALSE]

readAndParseChunk(conv, r) == readAndParseChunkFrom(conv, r, <<>>)

\* processStatement that builds the table of a CREATE TABLE in either mode.
processStatementAnyMode(conv, stmt, tid) ==
    CASE stmt.type = "CreateTableStmt" -> [conv |-> processCreateTable(conv, stmt), out |-> <<>>]
      [] stmt.type = "InsertStmt" -> processInsertStmt(conv, stmt, tid)
      [] OTHER -> [conv |-> SkipStatement(conv, stmt.type), out |-> <<>>]

\* processStatement: the context after the statement and what it hands to
\* the data sink.  tid is the result of the lookup of the statement's table.
processStatement(conv, stmt, tid) ==
    CASE stmt.type = "CreateTableStmt" ->
           [conv |-> IF SchemaMode(conv) THEN processCreateTable(conv, stmt) ELSE conv, out |-> <<>>]
      [] stmt.type = "AlterTableStmt" ->
           [conv |-> IF SchemaMode(conv) THEN processAlterTable(conv, stmt, tid) ELSE conv, out |-> <<>>]
      [] stmt.type = "SetStmt" ->
           [conv |-> IF SchemaMode(conv) THEN processSetStmt(conv, stmt) ELSE conv, out |-> <<>>]
      [] stmt.type = "InsertStmt" -> processInsertStmt(conv, stmt, tid)
      [] stmt.type = "CreateIndexStmt" ->
           [conv |-> IF SchemaMode(conv) THEN processCreateIndex(conv, stmt, tid) ELSE conv, out |-> <<>>]
      [] OTHER -> [conv |-> SkipStatement(conv, stmt.type), out |-> <<>>]

\* The table name a statement is looked up by (<<>> when it has none).
StmtTable(stmt) ==
    IF stmt.type \in {"CreateTableStmt", "AlterTableStmt", "InsertStmt", "CreateIndexStmt"} /\ ~stmt.Table.nil
    THEN getTableName(stmt.Table).name
    ELSE <<>>

(***************************************************************************)
(* internal.ResolveForeignKeyIds and common.SchemaToSpannerDDL.            *)
(***************************************************************************)
ResolveForeignKey(schema, tbl, fk) ==
    LET rids == TableIdsByName(schema, fk.ReferTableName)
        rid == IF rids = {} THEN "" ELSE CHOOSE id \in rids : TRUE
        rmap == IF rid = "" THEN <<>> ELSE schema[rid].ColNameIdMap
    IN [fk EXCEPT !.ColIds = [i \in 1..Len(fk.ColumnNames) |-> Get(tbl.ColNameIdMap, fk.ColumnNames[i], "")],
                  !.ReferTableId = rid,
                  !.ReferColumnIds = [i \in 1..Len(fk.ReferColumnNames) |-> Get(rmap, fk.ReferColumnNames[i], "")]]

ResolveForeignKeyIds(schema) ==
    [id \in DOMAIN schema |->
        [schema[id] EXCEPT !.ForeignKeys =
            [i \in 1..Len(schema[id].ForeignKeys) |-> ResolveForeignKey(schema, schema[id], schema[id].ForeignKeys[i])]]]

\* ddl.AutoGenCol: no auto-generation, and generation by the sequence name.
NoAutoGen == [Name |-> "", GenerationType |-> ""]

SEQUENCE == "Sequence"

AutoGenCol(name, type) == [Name |-> name, GenerationType |-> type]

\* The zero ddl.Sequence, which a map read of an absent id gives.
ZeroSequence == [Id |-> "", Name |-> "", ColumnsUsingSeq |-> <<>>]

\* The id of the sequence called sequenceName, "" when there is none.
getSequenceId(sequenceName, spSeq) ==
    IF \E seqId \in DOMAIN spSeq : spSeq[seqId].Name = sequenceName
    THEN CHOOSE seqId \in DOMAIN spSeq : spSeq[seqId].Name = sequenceName
    ELSE ""

\* cols without its first colId
RemoveFirst(cols, colId) ==
    With({i \in 1..Len(cols) : cols[i] = colId}, LAMBDA at :
         IF at = {} THEN cols
         ELSE With(CHOOSE i \in at : \A j \in at : i <= j, LAMBDA i :
                   SubSeq(cols, 1, i - 1) \o SubSeq(cols, i + 1, Len(cols))))

deleteColumnFromSequence(sequenceId, tableId, colId, sequences) ==
    IF tableId \in DOMAIN Get(sequences, sequenceId, ZeroSequence).ColumnsUsingSeq
    THEN [sequences EXCEPT ![sequenceId].ColumnsUsingSeq[tableId] = RemoveFirst(@, colId)]
    ELSE sequences

\* The else branch stores the sequence read under sequenceId back under
\* sequenceId, also when the map had no such sequence.
addColumnToSequence(sequenceId, tableId, colId, sequences) ==
    IF tableId \in DOMAIN Get(sequences, sequenceId, ZeroSequence).ColumnsUsingSeq
    THEN IF colId \in Range(sequences[sequenceId].ColumnsUsingSeq[tableId])
         THEN sequences
         ELSE [sequences EXCEPT ![sequenceId].ColumnsUsingSeq[tableId] = Append(@, colId)]
    ELSE Put(sequences, sequenceId,
             [Get(sequences, sequenceId, ZeroSequence) EXCEPT !.ColumnsUsingSeq = Put(@, tableId, <<colId>>)])

\* The context after the update: the column has the strategy autoGen, the
\* sequence of its old strategy no longer lists it and the sequence of the
\* new one does.  The sequences it returns are conv.SpSequences itself.
UpdateAutoGenCol(autoGen, tableId, colId, conv) ==
    With(Get(conv.SpSchema[tableId].ColDefs, colId, [AutoGen |-> NoAutoGen]).AutoGen, LAMBDA old :
    With(IF old.GenerationType = SEQUENCE
         THEN deleteColumnFromSequence(getSequenceId(old.Name, conv.SpSequences), tableId, colId, conv.SpSequences)
         ELSE conv.SpSequences, LAMBDA deleted :
         [conv EXCEPT
            !.SpSchema[tableId].ColDefs[colId].AutoGen = autoGen,
            !.SpSequences = IF autoGen.GenerationType = SEQUENCE
                            THEN addColumnToSequence(getSequenceId(autoGen.Name, conv.SpSequences),
                                                     tableId, colId, deleted)
                            ELSE deleted]))

ToSpannerType(name) == IF name \in {"int", "bigint", "smallint"} THEN "INT64" ELSE "STRING"

\* The target indexes of a table: the source indexes with the keys whose
\* column the target table has, in their order and direction.
cvtIndexes(srcIndexes, spColIds) ==
    [i \in 1..Len(srcIndexes) |->
        [srcIndexes[i] EXCEPT !.Keys = SelectSeq(@, LAMBDA k : k.ColId \in Range(spColIds))]]

RECURSIVE SchemaToSpannerDDLFrom(_, _)
\* One target table per source table, in the order of the table ids; a
\* table without a primary key gets the synthetic key column synth_id.
SchemaToSpannerDDLFrom(conv, k) ==
    IF k > Len(IdPool.t) THEN conv
    ELSE IF IdPool.t[k] \notin DOMAIN conv.SrcSchema THEN SchemaToSpannerDDLFrom(conv, k + 1)
    ELSE LET src == conv.SrcSchema[IdPool.t[k]]
             ids == SelectSeq(src.ColIds, LAMBDA c : c \in DOMAIN src.ColDefs)
             defs == [c \in Range(ids) |->
                        [Name |-> src.ColDefs[c].Name, Id |-> c, T |-> ToSpannerType(src.ColDefs[c].Type.Name)]]
             synth == src.PrimaryKeys = <<>>
             sid == GenerateId(conv, "c")
             sp == [Name |-> src.Name, Id |-> src.Id,
                    ColIds |-> IF synth THEN Append(ids, sid) ELSE ids,
                    ColDefs |-> IF synth THEN Put(defs, sid, [Name |-> "synth_id", Id |-> sid, T |-> "STRING"])
                                ELSE defs,
                    PrimaryKeys |-> IF synth THEN <<Key(sid)>> ELSE src.PrimaryKeys,
                    Indexes |-> cvtIndexes(src.Indexes, ids)]
             c1 == IF synth THEN Advance(conv, "c") ELSE conv
         IN SchemaToSpannerDDLFrom(
                [c1 EXCEPT !.SpSchema = Put(@, src.Id, sp),
                           !.SyntheticPKeys = IF synth THEN Put(@, src.Id, [ColId |-> sid, Sequence |-> 0]) ELSE @],
                k + 1)

\* SchemaToSpannerDDL that leaves a table without a primary key as it is.
SchemaToSpannerDDLNoSynth(conv) ==
    With(SchemaToSpannerDDLFrom(conv, 1), LAMBDA c :
         [c EXCEPT !.SpSchema = [id \in DOMAIN @ |->
                                   [@[id] EXCEPT !.PrimaryKeys = IF id \in DOMAIN c.SyntheticPKeys THEN <<>> ELSE @]]])

SchemaToSpannerDDL(conv) == SchemaToSpannerDDLFrom(conv, 1)

(***************************************************************************)
(* The batched writer (spanner/writer.BatchWriter) under the configuration *)
(* of getBatchWriterWithConfig.  A flush is a sequence of write calls, one *)
(* step each; the caller waits for it.                                     *)
(***************************************************************************)
NewBatchWriter ==
    [state |-> "idle", rows |-> <<>>, bytes |-> 0, count |-> 0, retries |-> 0, pending |-> <<>>]

\* WouldExceed that looks at the row count only.
WouldExceedCount(bw, m) == bw.count + 1 > WriteLimit

\* Whether appending m would exceed a limit of the in-flight batch.
WouldExceed(bw, m) == bw.count + 1 > WriteLimit \/ bw.bytes + m.bytes >= BytesLimit

BwAppend(bw, m) ==
    [bw EXCEPT !.rows = Append(@, m), !.bytes = @ + m.bytes, !.count = @ + 1]

\* Flush: the write of the in-flight batch starts, if there is one.
Flush(bw) == IF bw.count = 0 THEN bw ELSE [bw EXCEPT !.state = "flushing", !.retries = 0]

\* AddRow: append m, after a flush of the in-flight batch if m would
\* exceed a limit.
AddRow(bw, m) ==
    IF WouldExceed(bw, m) /\ bw.count > 0
    THEN [Flush(bw) EXCEPT !.pending = <<m>>]
    ELSE BwAppend(bw, m)

\* The writer after a write call that succeeded: both counters reset, the
\* row that waited for the flush starts the next batch.
Written(bw) ==
    LET empty == [bw EXCEPT !.state = "idle", !.rows = <<>>, !.bytes = 0, !.count = 0,
                            !.retries = 0, !.pending = <<>>]
    IN IF bw.pending = <<>> THEN empty ELSE BwAppend(empty, bw.pending[1])

\* MayRetry without the retry limit.
MayRetryAlways(bw) == TRUE

\* Whether a failed write call is tried again.
MayRetry(bw) == bw.retries < RetryLimit

\* The writer after a write call that failed.
WriteFailed(bw) ==
    IF MayRetry(bw) THEN [bw EXCEPT !.retries = @ + 1]
    ELSE [bw EXCEPT !.state = "fatal"]

(***************************************************************************)
(* The lines dumps are made of.                                            *)
(***************************************************************************)
\* -- a comment
LComment == Line(FALSE, "", <<>>)

\* CREATE TABLE t (a int);
LCreate == Line(TRUE, "", <<CreateTableStmt(TableName("t"), <<ColumnDef("a", Tp("int"), <<>>)>>, <<>>)>>)

\* CREATE TABLE c (a int, b int, FOREIGN KEY (a, b) REFERENCES t (a));
LCreateFk ==
    Line(TRUE, "",
         <<CreateTableStmt(TableName("c"),
                           <<ColumnDef("a", Tp("int"), <<>>), ColumnDef("b", Tp("int"), <<>>)>>,
                           <<Constraint("ForeignKey", "fk",
                                      <<IndexPartSpecification("a", FALSE), IndexPartSpecification("b", FALSE)>>,
                                      Refer("t", <<"a">>))>>)>>)

\* ALTER TABLE u ADD PRIMARY KEY (a);
LAlterUnknown ==
    Line(TRUE, "",
         <<AlterTableStmt(TableName("u"),
               <<[Tp |-> "AddConstraint", NewColumns |-> <<>>,
                  Constraint |-> Constraint("PrimaryKey", "", <<IndexPartSpecification("a", FALSE)>>, NoRefer)]>>)>>)

\* CREATE TABLE p (a int, b int, PRIMARY KEY (b, a), KEY k (b, a),
\*                 FOREIGN KEY (a) REFERENCES t (a));
LCreatePk ==
    Line(TRUE, "",
         <<CreateTableStmt(TableName("p"),
               <<ColumnDef("a", Tp("int"), <<>>), ColumnDef("b", Tp("int"), <<>>)>>,
               <<Constraint("PrimaryKey", "",
                            <<IndexPartSpecification("b", FALSE), IndexPartSpecification("a", FALSE)>>, NoRefer),
                 Constraint("Index", "k",
                            <<IndexPartSpecification("b", FALSE), IndexPartSpecification("a", FALSE)>>, NoRefer),
                 Constraint("ForeignKey", "fk", <<IndexPartSpecification("a", FALSE)>>, Refer("t", <<"a">>))>>)>>)

\* ALTER TABLE t ADD PRIMARY KEY (a), ADD INDEX i1 (a);
LAlterTwo ==
    Line(TRUE, "",
         <<AlterTableStmt(TableName("t"),
               <<[Tp |-> "AddConstraint", NewColumns |-> <<>>,
                  Constraint |-> Constraint("PrimaryKey", "", <<IndexPartSpecification("a", FALSE)>>, NoRefer)],
                 [Tp |-> "AddConstraint", NewColumns |-> <<>>,
                  Constraint |-> Constraint("Index", "i1", <<IndexPartSpecification("a", FALSE)>>, NoRefer)]>>)>>)

\* CREATE INDEX i2 ON t (a DESC);
LCreateIndex ==
    Line(TRUE, "", <<CreateIndexStmt(TableName("t"), "i2", FALSE, <<IndexPartSpecification("a", TRUE)>>)>>)

\* Text with a ";" that the parser rejects and no heuristic repairs.
LJunk == Line(TRUE, "syntax", <<>>)

\* INSERT INTO t VALUES (1),(x);
LInsert == InsertLine("t", <<"ok", "id">>)

\* INSERT INTO t VALUES (1),(!),(1);
LInsertSyn == InsertLine("t", <<"ok", "syn", "ok">>)

\* INSERT INTO t VALUES (')'),(1);
LInsertStr == InsertLine("t", <<"str", "ok">>)

Lines ==
    {LComment, LCreate, LCreateFk, LCreatePk, LAlterUnknown, LAlterTwo, LCreateIndex, LJunk,
     LInsert, LInsertSyn, LInsertStr}

Dumps == UNION {[1..n -> Lines] : n \in 1..MaxLines}

(***************************************************************************)
(* State.                                                                  *)
(***************************************************************************)
VARIABLES
    dump,       \* the dump file, a list of lines
    ctx,        \* the context of the run: "live" or "cancelled"
    pc,         \* where handleDatabaseDumpFile is
    conv,       \* the conversion context
    r,          \* the reader over the dump
    stmts,      \* the statements of the current chunk still to be processed
    rows,       \* the rows of the current INSERT still to be processed
    cur,        \* the table id and columns processInsertStmt resolved for them
    bw,         \* the batched writer
    store,      \* the mutations the target store applied, in order
    handed,     \* the mutations handed to the writer, in order
    writeCalls, \* the number of write calls made
    err,        \* the error handleDatabaseDumpFile returns
    db,         \* the schemas applied to the target database, in order
    ret,        \* what CreateSchema returned for the context: "nil" or "conv"
    summarizer  \* the MigrationCodeSummarizer: the project's graph, order and analysis

vars == <<dump, ctx, pc, conv, r, stmts, rows, cur, bw, store, handed, writeCalls, err, db, ret, summarizer>>

\* The summarizer of a run that assesses no application code.
NoProject == <<>>

NoErr == [msg |-> "", lines |-> 0]

NoCur == [tid |-> "", pre |-> [go |-> FALSE, conv |-> MakeConv, srcCols |-> <<>>, commonColIds |-> <<>>]]

Init ==
    /\ summarizer = NoProject
    /\ dump \in Dumps
    /\ ctx = "live"
    /\ pc = "start"
    /\ conv = MakeConv
    /\ r = NewReader(<<>>)
    /\ stmts = <<>>
    /\ rows = <<>>
    /\ cur = NoCur
    /\ bw = NewBatchWriter
    /\ store = <<>>
    /\ handed = <<>>
    /\ writeCalls = 0
    /\ err = NoErr
    /\ db = <<>>
    /\ ret = "pending"

Fail(msg, n) == pc' = "failed" /\ err' = [msg |-> msg, lines |-> n]

(***************************************************************************)
(* CreateSchema (import_file/import_from_dump.go).                         *)
(***************************************************************************)
CreateReader ==
    /\ pc = "start"
    /\ \/ /\ r' = NewReader(dump)
          /\ conv' = SetSchemaMode(MakeConv)
          /\ pc' = "read"
          /\ UNCHANGED <<err, ret>>
       \/ /\ Fail("failed to create reader", 0)
          /\ ret' = "nil"
          /\ UNCHANGED <<r, conv>>
    /\ UNCHANGED <<summarizer, dump, ctx, db, stmts, rows, cur, bw, store, handed, writeCalls>>

\* ConvertSchema whose error is recorded while CreateSchema goes on.
ConvertSchemaUnchecked ==
    /\ pc = "convert"
    /\ pc' = "update"
    /\ \/ conv' = SchemaToSpannerDDL(conv) /\ err' = err
       \/ conv' = conv /\ err' = [msg |-> "failed to convert schema to spanner DDL", lines |-> 0]
    /\ UNCHANGED <<summarizer, dump, ctx, db, ret, r, stmts, rows, cur, bw, store, handed, writeCalls>>

ConvertSchema ==
    /\ pc = "convert"
    /\ \/ /\ conv' = SchemaToSpannerDDL(conv)
          /\ pc' = "update"
          /\ UNCHANGED <<err, ret>>
       \/ /\ Fail("failed to convert schema to spanner DDL", 0)
          /\ ret' = "nil"
          /\ conv' = conv
    /\ UNCHANGED <<summarizer, dump, ctx, db, r, stmts, rows, cur, bw, store, handed, writeCalls>>

\* UpdateDatabase whose error is not looked at.
UpdateDatabaseUnchecked ==
    /\ pc = "update"
    /\ pc' = "import"
    /\ ret' = "conv"
    /\ \/ err' = err /\ db' = Append(db, conv.SpSchema)
       \/ err' = [msg |-> "can't update database", lines |-> 0] /\ db' = db
    /\ UNCHANGED <<summarizer, dump, ctx, conv, r, stmts, rows, cur, bw, store, handed, writeCalls>>

UpdateDatabase ==
    /\ pc = "update"
    /\ \/ pc' = "import" /\ err' = err /\ db' = Append(db, conv.SpSchema) /\ ret' = "conv"
       \/ Fail("can't update database", 0) /\ db' = db /\ ret' = "nil"
    /\ UNCHANGED <<summarizer, dump, ctx, conv, r, stmts, rows, cur, bw, store, handed, writeCalls>>

(***************************************************************************)
(* processMySQLDump (sources/mysql/mysqldump.go), in either mode.          *)
(***************************************************************************)
\* The loop of processMySQLDump without its test of r.EOF.
AfterStatementNoEof(ss, rd) == IF ss # <<>> THEN "stmt" ELSE "read"

\* Where processMySQLDump goes on once the statements left are ss: to the
\* next statement, to the next chunk, or out of its loop at end of stream.
AfterStatement(ss, rd) ==
    IF ss # <<>> THEN "stmt"
    ELSE IF ~rd.EOF THEN "read"
    ELSE "eof"

ReadChunk ==
    /\ pc = "read"
    /\ bw.state = "idle"
    /\ LET res == readAndParseChunk(conv, r) IN
       /\ conv' = res.conv
       /\ r' = res.r
       /\ IF res.err
          THEN /\ Fail(IF SchemaMode(conv) THEN "failed to process source schema" ELSE "import", res.lines)
               /\ ret' = IF SchemaMode(conv) THEN "nil" ELSE ret
               /\ stmts' = <<>>
          ELSE /\ stmts' = res.stmts
               /\ pc' = AfterStatement(res.stmts, res.r)
               /\ UNCHANGED <<err, ret>>
    /\ UNCHANGED <<summarizer, dump, ctx, db, rows, cur, bw, store, handed, writeCalls>>

\* processStatement on the next statement of the chunk; the rows of an
\* INSERT in data mode are left to ProcessRow.
ProcessStatement ==
    /\ pc = "stmt"
    /\ bw.state = "idle"
    /\ LET stmt == Head(stmts) IN
       \E tid \in LookupResults(conv.SrcSchema, StmtTable(stmt)) :
          IF stmt.type = "InsertStmt" /\ DataMode(conv)
          THEN LET pre == insertPrelude(conv, stmt, tid) IN
               /\ conv' = pre.conv
               /\ stmts' = Tail(stmts)
               /\ IF pre.go
                  THEN rows' = stmt.Lists /\ cur' = [tid |-> tid, pre |-> pre] /\ pc' = "rows"
                  ELSE rows' = rows /\ cur' = cur /\ pc' = AfterStatement(Tail(stmts), r)
          ELSE LET res == processStatement(conv, stmt, tid) IN
               /\ conv' = res.conv
               /\ stmts' = Tail(stmts)
               /\ pc' = IF res.conv.Panic THEN "panic" ELSE AfterStatement(Tail(stmts), r)
               /\ UNCHANGED <<rows, cur>>
    /\ UNCHANGED <<summarizer, dump, ctx, db, ret, r, bw, store, handed, writeCalls, err>>

\* One iteration of the row loop of processInsertStmt in data mode; the
\* data sink is batchWriter.AddRow.
ProcessRow ==
    /\ pc = "rows"
    /\ bw.state = "idle"
    /\ LET res == insertRow(conv, cur.tid, cur.pre, Head(rows)) IN
       /\ conv' = res.conv
       /\ rows' = Tail(rows)
       /\ handed' = handed \o res.out
       /\ bw' = IF res.out = <<>> THEN bw ELSE AddRow(bw, res.out[1])
       /\ pc' = IF Tail(rows) = <<>> THEN AfterStatement(stmts, r) ELSE "rows"
    /\ UNCHANGED <<summarizer, dump, ctx, db, ret, r, stmts, cur, store, writeCalls, err>>

\* EndOfDump that puts the context back into schema mode.
EndOfDumpSchemaMode ==
    /\ pc = "eof"
    /\ bw.state = "idle"
    /\ conv' = SetSchemaMode([conv EXCEPT !.SrcSchema = ResolveForeignKeyIds(@)])
    /\ pc' = IF SchemaMode(conv) THEN "convert" ELSE "flush"
    /\ UNCHANGED <<summarizer, dump, ctx, db, ret, r, stmts, rows, cur, bw, store, handed, writeCalls, err>>

\* The end of processMySQLDump: back in CreateSchema or in ImportData.
EndOfDump ==
    /\ pc = "eof"
    /\ bw.state = "idle"
    /\ conv' = [conv EXCEPT !.SrcSchema = ResolveForeignKeyIds(@)]
    /\ pc' = IF SchemaMode(conv) THEN "convert" ELSE "flush"
    /\ UNCHANGED <<summarizer, dump, ctx, db, ret, r, stmts, rows, cur, bw, store, handed, writeCalls, err>>

(***************************************************************************)
(* ImportData (import_file/import_from_dump.go).                           *)
(***************************************************************************)
\* ResetReader, then getBatchWriterWithConfig: data mode, the data sink.
ResetReader ==
    /\ pc = "import"
    /\ \E seekOk, openOk \in BOOLEAN :
          LET res == resetReader(r, seekOk, openOk) IN
          /\ r' = res.r
          /\ IF res.err
             THEN /\ Fail("can't read dump file", 0)
                  /\ UNCHANGED <<conv, bw>>
             ELSE /\ conv' = SetDataMode(conv)
                  /\ bw' = NewBatchWriter
                  /\ pc' = "read"
                  /\ err' = err
    /\ UNCHANGED <<summarizer, dump, ctx, db, ret, stmts, rows, cur, store, handed, writeCalls>>

\* ImportData without its final flush.
ImportDataNoFlush == bw' = bw /\ pc' = "return"

ImportDataFlushBody == bw' = Flush(bw) /\ pc' = "return"

\* batchWriter.Flush() after ProcessDump.
ImportDataFlush ==
    /\ pc = "flush"
    /\ ImportDataFlushBody
    /\ UNCHANGED <<summarizer, dump, ctx, db, ret, conv, r, stmts, rows, cur, store, handed, writeCalls, err>>

\* return nil
ImportDataReturn ==
    /\ pc = "return"
    /\ bw.state = "idle"
    /\ pc' = "done"
    /\ UNCHANGED <<summarizer, dump, ctx, db, ret, conv, r, stmts, rows, cur, bw, store, handed, writeCalls, err>>

(***************************************************************************)
(* The write calls of a flush (config.Write of getBatchWriterWithConfig).  *)
(***************************************************************************)
\* A write that applies its batch ahead of what is stored.
WriteOkPrepending ==
    /\ bw.state = "flushing"
    /\ store' = bw.rows \o store
    /\ writeCalls' = writeCalls + 1
    /\ bw' = Written(bw)
    /\ UNCHANGED <<summarizer, dump, ctx, db, ret, pc, conv, r, stmts, rows, cur, handed, err>>

WriteOk ==
    /\ bw.state = "flushing"
    /\ store' = store \o bw.rows
    /\ writeCalls' = writeCalls + 1
    /\ bw' = Written(bw)
    /\ UNCHANGED <<summarizer, dump, ctx, db, ret, pc, conv, r, stmts, rows, cur, handed, err>>

WriteFail ==
    /\ bw.state = "flushing"
    /\ writeCalls' = writeCalls + 1
    /\ bw' = WriteFailed(bw)
    /\ pc' = IF MayRetry(bw) THEN pc ELSE "aborted"
    /\ UNCHANGED <<summarizer, dump, ctx, db, ret, conv, r, stmts, rows, cur, store, handed, err>>

Next ==
    \/ CreateReader
    \/ ReadChunk
    \/ ProcessStatement
    \/ ProcessRow
    \/ EndOfDump
    \/ ConvertSchema
    \/ UpdateDatabase
    \/ ResetReader
    \/ ImportDataFlush
    \/ ImportDataReturn
    \/ WriteOk
    \/ WriteFail

Spec == Init /\ [][Next]_vars

(***************************************************************************)
(* The batched writer on its own: rows of every size up to MaxRowBytes are *)
(* appended, and the writer is flushed, in every order.                    *)
(***************************************************************************)
InitWriter ==
    /\ summarizer = NoProject
    /\ dump = <<>>
    /\ ctx = "live"
    /\ pc = "writer"
    /\ conv = SetDataMode(MakeConv)
    /\ r = NewReader(<<>>)
    /\ stmts = <<>>
    /\ rows = <<>>
    /\ cur = NoCur
    /\ bw = NewBatchWriter
    /\ store = <<>>
    /\ handed = <<>>
    /\ writeCalls = 0
    /\ err = NoErr
    /\ db = <<>>
    /\ ret = "pending"

\* A mutation of sz bytes, the n-th handed to the writer.
Mutation(sz, n) ==
    [table |-> <<"t">>, cols |-> <<"c1">>, vals |-> <<"1">>, synth |-> 0, bytes |-> sz, pos |-> <<1, n>>]

BwAddRow ==
    /\ pc = "writer"
    /\ bw.state = "idle"
    /\ Len(handed) < MaxAppends
    /\ \E sz \in 1..MaxRowBytes :
          /\ bw' = AddRow(bw, Mutation(sz, Len(handed) + 1))
          /\ handed' = Append(handed, Mutation(sz, Len(handed) + 1))
    /\ UNCHANGED <<summarizer, dump, ctx, db, ret, pc, conv, r, stmts, rows, cur, store, writeCalls, err>>

BwFlush ==
    /\ pc = "writer"
    /\ bw.state = "idle"
    /\ bw' = Flush(bw)
    /\ UNCHANGED <<summarizer, dump, ctx, db, ret, pc, conv, r, stmts, rows, cur, store, handed, writeCalls, err>>

NextWriter ==
    \/ BwAddRow
    \/ BwFlush
    \/ WriteOk
    \/ WriteFail

SpecWriter == InitWriter /\ [][NextWriter]_vars

(***************************************************************************)
(* The import of a dump that creates table t and then inserts into it, for *)
(* every list of value tuples up to MaxTuples.                             *)
(***************************************************************************)
InsertDumps == {<<LCreate, InsertLine("t", kinds)>> : kinds \in SeqsUpTo(TupleKinds, MaxTuples) \ {<<>>}}

InitInsert ==
    /\ summarizer = NoProject
    /\ dump \in InsertDumps
    /\ ctx = "live"
    /\ pc = "start"
    /\ conv = MakeConv
    /\ r = NewReader(<<>>)
    /\ stmts = <<>>
    /\ rows = <<>>
    /\ cur = NoCur
    /\ bw = NewBatchWriter
    /\ store = <<>>
    /\ handed = <<>>
    /\ writeCalls = 0
    /\ err = NoErr
    /\ db = <<>>
    /\ ret = "pending"

SpecInsert == InitInsert /\ [][Next]_vars

(***************************************************************************)
(* The import under a context that its caller may cancel at any time       *)
(* before the run is over.                                                 *)
(***************************************************************************)
Cancel ==
    /\ ctx = "live"
    /\ pc \notin {"done", "failed", "aborted", "panic"}
    /\ ctx' = "cancelled"
    /\ UNCHANGED <<summarizer, dump, pc, conv, r, stmts, rows, cur, bw, store, handed, writeCalls, err, db, ret>>

NextCancel ==
    \/ Next
    \/ Cancel

SpecCancel == Init /\ [][NextCancel]_vars

(***************************************************************************)
(* What the claims are stated with.                                        *)
(***************************************************************************)
\* The name under which the statistics of table t are kept.
TName == getTableName(TableName("t")).name

RowsOf(c) == Get(c.Rows, TName, 0)

BadRowsOf(c) == Get(c.BadRows, TName, 0)

\* Dump order of two rows: by line, then by place in the value list.
PosLess(p, q) == p[1] < q[1] \/ (p[1] = q[1] /\ p[2] < q[2])

\* Whether a parsed row converts: column a of t is an integer column, so
\* the row must be one number literal.
RowConverts(row) == row.vals[1].node = "ValueExpr" /\ row.vals[1].v \in Digits

SchemaFailures ==
    {"failed to create reader", "failed to process source schema",
     "failed to convert schema to spanner DDL", "can't update database"}

\* The rows of line ln that were handed to the writer, by position.
DeliveredFrom(ln) == {handed[i].pos : i \in {k \in DOMAIN handed : handed[k].pos[1] = ln}}

(***************************************************************************)
(* C1                                                                      *)
(***************************************************************************)
C1_Step ==
    (pc = "rows" /\ bw.state = "idle") =>
        /\ rows' = Tail(rows)
        /\ pc' \in {"rows", "stmt", "read", "eof"}
        /\ IF RowConverts(Head(rows))
           THEN /\ Len(handed') = Len(handed) + 1
                /\ handed'[Len(handed')].pos = Head(rows).pos
                /\ conv'.BadRows = conv.BadRows
                /\ conv'.SampleBadRows = conv.SampleBadRows
           ELSE /\ handed' = handed
                /\ BadRowsOf(conv') = BadRowsOf(conv) + 1
                /\ Len(conv'.SampleBadRows) = Len(conv.SampleBadRows) + 1

\* C1: in the data pass, a row of an INSERT whose value does not convert
\* adds exactly one to the bad-row count of its table, is sampled and is not
\* handed to the writer; a row that converts is handed to the writer and
\* counted nowhere as bad; either way the loop goes on with the next row or
\* statement.
C1_RowLevelIsolation == [][C1_Step]_vars

\* A row after a bad row of the same statement was delivered, and the run
\* went on to its end.
C1_Witness ==
    /\ pc = "done"
    /\ \E ln \in DOMAIN dump :
          /\ dump[ln] = LInsertStr
          /\ <<ln, 2>> \in DeliveredFrom(ln)
          /\ <<ln, 1>> \notin DeliveredFrom(ln)
    /\ BadRowsOf(conv) >= 1

(***************************************************************************)
(* C2                                                                      *)
(***************************************************************************)
\* The tuple kinds of an INSERT line.
KindsOf(line) ==
    CHOOSE kinds \in SeqsUpTo(TupleKinds, MaxTuples) : kinds # <<>> /\ line.vtext = ValuesText(kinds)

\* Whether a tuple of kind k parses as the one row of an INSERT of its own.
TupleParses(k) == ParseTuples(TupleText(k) \o <<";">>, 1, 0, 0).ok

C2_Step ==
    (/\ pc = "read"
     /\ bw.state = "idle"
     /\ r.pos <= Len(dump)
     /\ dump[r.pos].ins # ""
     /\ ParseLine(dump[r.pos], r.pos).perr # "") =>
        LET kinds == KindsOf(dump[r.pos])
            good == {i \in DOMAIN kinds : TupleParses(kinds[i])}
        IN /\ pc' # "failed"
           /\ Len(stmts') = Cardinality(good)
           /\ \A j \in DOMAIN stmts' :
                 /\ stmts'[j].type = "InsertStmt"
                 /\ Len(stmts'[j].Lists) = 1
                 /\ stmts'[j].Lists[1].pos[2] \in good
                 /\ \A k \in DOMAIN stmts' : j < k => PosLess(stmts'[j].Lists[1].pos, stmts'[k].Lists[1].pos)
           /\ DataMode(conv) =>
                 BadRowsOf(conv') = BadRowsOf(conv) + Cardinality(DOMAIN kinds \ good)

\* C2: when a multi-row INSERT does not parse as a whole, the chunk yields
\* one single-row INSERT for every tuple that parses on its own, in tuple
\* order, and every tuple that does not is recorded as a bad row.
C2_Decomposition == [][C2_Step]_vars

(***************************************************************************)
(* C3                                                                      *)
(***************************************************************************)
\* C3: after a complete run over a dump that holds
\* INSERT INTO t VALUES (1),(x); and whose schema pass created t, exactly
\* the first row of that statement has been handed to the writer; when it
\* is the only INSERT of the dump, the row count of t is 2 and its bad-row
\* count is 1.
C3_Scenario ==
    pc = "done" =>
        \A ln \in DOMAIN dump :
            (dump[ln] = LInsert /\ LookupResults(conv.SrcSchema, TName) # {""}) =>
                /\ DeliveredFrom(ln) = {<<ln, 1>>}
                /\ (\A k \in DOMAIN dump : k # ln => dump[k].ins = "") =>
                       (RowsOf(conv) = 2 /\ BadRowsOf(conv) = 1 /\ Len(handed) = 1)

C3_Witness ==
    /\ pc = "done"
    /\ summarizer = NoProject
    /\ dump = <<LCreate, LInsert>>
    /\ RowsOf(conv) = 2
    /\ Len(store) = 1

(***************************************************************************)
(* C4                                                                      *)
(***************************************************************************)
\* The lines from a on, as readAndParseChunk has accumulated them when it
\* meets the end of the stream: the last is the empty read.
TrailingChunk(a) ==
    [k \in 1..(Len(dump) - a + 2) |->
        IF a + k - 1 <= Len(dump) THEN [line |-> dump[a + k - 1], no |-> a + k - 1]
        ELSE [line |-> EmptyLine, no |-> Len(dump) + 1]]

\* Whether the chunk parses or a repair heuristic applies to it.
Repairable(c, l) == Parse(l).perr = "" \/ handleParseError(c, l, Parse(l).perr).ok

C4_Step ==
    (pc = "read" /\ bw.state = "idle" /\ r'.EOF) =>
        IF Repairable(conv, TrailingChunk(r.pos))
        THEN pc' # "failed"
        ELSE /\ pc' = "failed"
             /\ err'.msg \in {"failed to process source schema", "import"}
             /\ err'.lines = Len(TrailingChunk(r.pos))
             /\ stmts' = <<>>
             /\ conv'.Statement = conv.Statement
             /\ handed' = handed

\* C4: when readAndParseChunk reaches the end of the stream with a chunk
\* that neither parses nor is repaired, ProcessDump fails with an error that
\* carries the number of lines accumulated in that chunk, and no statement
\* of the chunk is processed; otherwise the end of the stream is no error.
C4_TrailingChunk == [][C4_Step]_vars

\* The run failed on a trailing chunk of more than one line.
C4_Witness == pc = "failed" /\ err.msg = "failed to process source schema" /\ err.lines = 3

(***************************************************************************)
(* C5                                                                      *)
(***************************************************************************)
\* C5: no statement stops ProcessDump: the run never ends inside the
\* processing of a statement.
C5_NoStatementStops == pc # "panic"

(***************************************************************************)
(* C6                                                                      *)
(***************************************************************************)
\* Nothing of the data pass has happened.
NoDataPass == SchemaMode(conv) /\ handed = <<>> /\ store = <<>> /\ writeCalls = 0

C6_Step ==
    /\ pc' = "import" => (pc \in {"update", "import"} /\ (pc = "update" => err' = NoErr))
    /\ DataMode(conv') => (DataMode(conv) \/ pc = "import")

\* C6: as long as the schema has not been created nothing is handed to the
\* writer or written; a failure of any step that creates the schema leaves
\* the run with no data pass; and ImportData starts only from a successful
\* schema-application call.
C6_SchemaBeforeData ==
    /\ [](pc \in {"start", "convert", "update", "import"} => NoDataPass)
    /\ [](err.msg \in SchemaFailures => (pc = "failed" /\ NoDataPass))
    /\ [][C6_Step]_vars

\* The schema-application call failed, after a schema pass that counted rows.
C6_Witness == pc = "failed" /\ err.msg = "can't update database" /\ RowsOf(conv) > 0

RECURSIVE SumBytes(_)
SumBytes(ms) == IF ms = <<>> THEN 0 ELSE Head(ms).bytes + SumBytes(Tail(ms))

\* The counters are those of the rows in the batch (none after a flush).
CountersExact == bw.count = Len(bw.rows) /\ bw.bytes = SumBytes(bw.rows)

C10_TableOrder ==
    \A i, j \in DOMAIN store :
        (i < j /\ store[i].table = store[j].table) => PosLess(store[i].pos, store[j].pos)

\* Rows of two statements, written in more than one batch, one of them
\* after a failed write call.
C10_Witness ==
    /\ Len(store) >= 3
    /\ \E i, j \in DOMAIN store : store[i].pos[1] # store[j].pos[1]
    /\ writeCalls >= 3

(***************************************************************************)
(* C11                                                                     *)
(***************************************************************************)
\* C11: once the run is cancelled, no further chunk is read and no further
\* statement is processed, no write call is made and the in-flight batch
\* is not flushed.
C11_Cancellation ==
    /\ [][(ctx = "cancelled" /\ pc \in {"read", "stmt"}) => (r' = r /\ stmts' = stmts /\ conv' = conv)]_vars
    /\ [][ctx = "cancelled" => (writeCalls' = writeCalls /\ bw'.state # "flushing")]_vars

(***************************************************************************)
(* C12                                                                     *)
(***************************************************************************)
\* C12: every target table whose source table has no primary key has
\* exactly one primary-key column, called synth_id, which is one of its
\* columns and the only one the source table does not have; once the schema
\* is converted every source table has its target table.
C12_SyntheticKey ==
    /\ \A id \in DOMAIN conv.SpSchema :
          (id \in DOMAIN conv.SrcSchema /\ conv.SrcSchema[id].PrimaryKeys = <<>>) =>
              LET sp == conv.SpSchema[id]
                  src == conv.SrcSchema[id]
              IN /\ Len(sp.PrimaryKeys) = 1
                 /\ sp.PrimaryKeys[1].ColId \in Range(sp.ColIds)
                 /\ sp.PrimaryKeys[1].ColId \in DOMAIN sp.ColDefs
                 /\ sp.ColDefs[sp.PrimaryKeys[1].ColId].Name = "synth_id"
                 /\ sp.PrimaryKeys[1].ColId \notin Range(src.ColIds)
                 /\ Range(sp.ColIds) \ {sp.PrimaryKeys[1].ColId} = Range(src.ColIds)
                 /\ Len(sp.ColIds) = Len(src.ColIds) + 1
    /\ pc \in {"update", "import"} => DOMAIN conv.SpSchema = DOMAIN conv.SrcSchema

\* A run that converted a table without a primary key and a table with one.
C12_Witness ==
    /\ pc = "done"
    /\ \E id1, id2 \in DOMAIN conv.SpSchema :
          /\ conv.SrcSchema[id1].PrimaryKeys = <<>>
          /\ id1 \in DOMAIN conv.SyntheticPKeys
          /\ Len(conv.SrcSchema[id2].PrimaryKeys) = 2
          /\ conv.SpSchema[id2].PrimaryKeys = conv.SrcSchema[id2].PrimaryKeys

(***************************************************************************)
(* C13                                                                     *)
(***************************************************************************)
\* C13: in the schema pass, processing one statement adds exactly one to
\* exactly one of the schema, data and skipped counters and leaves every
\* other statement counter as it was.
C13_CountedOnce ==
    [][(pc = "stmt" /\ SchemaMode(conv) /\ pc' # "panic") =>
          \E ty \in StmtTypes, k \in {"Schema", "Data", "Skip"} :
              conv'.Statement = [conv.Statement EXCEPT ![ty][k] = @ + 1]]_vars

C16_CreateSchemaFails ==
    /\ [](err.msg \in SchemaFailures => (pc = "failed" /\ ret = "nil" /\ db = <<>>))
    /\ [](err.msg = "failed to create reader" => (r = NewReader(<<>>) /\ conv = MakeConv))
    /\ [](err.msg \in {"failed to process source schema", "failed to convert schema to spanner DDL"} =>
             (conv.SpSchema = <<>> /\ conv.SyntheticPKeys = <<>>))
    /\ [](ret = "nil" => err.msg \in SchemaFailures)
    /\ [](ret = "conv" => (err.msg \notin SchemaFailures /\ db = <<conv.SpSchema>>))
    /\ [][pc = "failed" => UNCHANGED vars]_vars

\* The conversion of a schema with a table failed.
C16_Witness ==
    /\ pc = "failed"
    /\ err.msg = "failed to convert schema to spanner DDL"
    /\ ret = "nil"
    /\ conv.SrcSchema # <<>>

(***************************************************************************)
(* C17                                                                     *)
(***************************************************************************)
\* C17: the context is in schema mode from its creation until CreateSchema
\* has returned it, and in data mode from the start of the data pass on,
\* whatever the outcome of the data pass; the only change of mode is the
\* one from schema to data at the start of the data pass.
C17_Modes ==
    /\ [](pc \in {"start", "convert", "update", "import"} => SchemaMode(conv))
    /\ [](ret # "conv" => SchemaMode(conv))
    /\ [](pc \in {"flush", "return", "done", "aborted"} => DataMode(conv))
    /\ [][conv'.mode # conv.mode =>
             (SchemaMode(conv) /\ DataMode(conv') /\ pc = "import" /\ pc' = "read" /\ r'.pos = 1)]_vars
    /\ [][DataMode(conv) => DataMode(conv')]_vars

\* A data pass that delivered rows was aborted, in data mode.
C17_Witness == pc = "aborted" /\ DataMode(conv) /\ ret = "conv" /\ handed # <<>>


(***************************************************************************)
(* The review of a target table (ReviewTableSchema): the caller removes or *)
(* renames one column of the target schema at a time.  Names and check     *)
(* expressions are texts, written as sequences of characters.              *)
(***************************************************************************)
IndexKey(colId, desc, order) == [ColId |-> colId, Desc |-> desc, Order |-> order]

\* keys without the column colId, the orders counted again from 1
removeColumnFromKeys(keys, colId) ==
    With(SelectSeq(keys, LAMBDA k : k.ColId # colId), LAMBDA ks :
         [i \in 1..Len(ks) |-> IndexKey(ks[i].ColId, ks[i].Desc, i)])

\* The indexes without the column; an index without keys is dropped.
removeColumnFromIndexes(indexes, colId) ==
    SelectSeq([i \in 1..Len(indexes) |-> [indexes[i] EXCEPT !.Keys = removeColumnFromKeys(@, colId)]],
              LAMBDA ix : ix.Keys # <<>>)

\* ids without the positions at which firstIds or secondIds name a column to drop
KeepPositions(ids, firstIds, dropFirst, secondIds, dropSecond) ==
    With({i \in 1..Len(ids) : firstIds[i] \notin dropFirst /\ secondIds[i] \notin dropSecond}, LAMBDA keep :
         With(SelectSeq([i \in 1..Len(ids) |-> i], LAMBDA i : i \in keep), LAMBDA pos :
              [j \in 1..Len(pos) |-> ids[pos[j]]]))

\* The foreign keys of one table without the pairs whose referring column
\* is in own or whose referenced column, in table referId, is colId; a
\* foreign key without columns is dropped.
removeColumnFromForeignKeys(fks, own, referId, colId) ==
    SelectSeq([i \in 1..Len(fks) |->
                 With(IF fks[i].ReferTableId = referId THEN {colId} ELSE {}, LAMBDA refd :
                      [fks[i] EXCEPT
                         !.ColIds = KeepPositions(fks[i].ColIds, fks[i].ColIds, own, fks[i].ReferColumnIds, refd),
                         !.ReferColumnIds = KeepPositions(fks[i].ReferColumnIds, fks[i].ColIds, own, fks[i].ReferColumnIds, refd)])],
              LAMBDA fk : fk.ColIds # <<>>)

\* removeColumn that leaves the foreign keys of the other tables alone
removeColumnOwnTable(schema, tableId, colId) ==
    [schema EXCEPT ![tableId] =
        [@ EXCEPT !.ColIds = SelectSeq(@, LAMBDA c : c # colId),
                  !.ColDefs = [c \in DOMAIN @ \ {colId} |-> @[c]],
                  !.PrimaryKeys = removeColumnFromKeys(@, colId),
                  !.Indexes = removeColumnFromIndexes(@, colId),
                  !.ForeignKeys = removeColumnFromForeignKeys(@, {colId}, tableId, colId)]]

\* The target schema without column colId of table tableId.
removeColumn(schema, tableId, colId) ==
    [t \in DOMAIN schema |->
        IF t = tableId
        THEN [schema[t] EXCEPT
                 !.ColIds = SelectSeq(@, LAMBDA c : c # colId),
                 !.ColDefs = [c \in DOMAIN @ \ {colId} |-> @[c]],
                 !.PrimaryKeys = removeColumnFromKeys(@, colId),
                 !.Indexes = removeColumnFromIndexes(@, colId),
                 !.ForeignKeys = removeColumnFromForeignKeys(@, {colId}, tableId, colId)]
        ELSE [schema[t] EXCEPT !.ForeignKeys = removeColumnFromForeignKeys(@, {}, tableId, colId)]]

RECURSIVE ReplaceAll(_, _, _, _)
\* strings.ReplaceAll from position i on: every occurrence of old, found
\* from left to right without overlap, becomes new.
ReplaceAll(s, old, new, i) ==
    IF i > Len(s) THEN <<>>
    ELSE IF i + Len(old) - 1 <= Len(s) /\ SubSeq(s, i, i + Len(old) - 1) = old
         THEN new \o ReplaceAll(s, old, new, i + Len(old))
         ELSE <<s[i]>> \o ReplaceAll(s, old, new, i + 1)

\* The characters an identifier is made of.
IdentChars == {"c", "x", "y", "z", "_", "0", "1", "2"}

RECURSIVE ReplaceIdentifier(_, _, _, _)
\* ReplaceAll for the occurrences of old that are a whole identifier.
ReplaceIdentifier(s, old, new, i) ==
    IF i > Len(s) THEN <<>>
    ELSE IF /\ i + Len(old) - 1 <= Len(s)
            /\ SubSeq(s, i, i + Len(old) - 1) = old
            /\ (i = 1 \/ s[i - 1] \notin IdentChars)
            /\ (i + Len(old) > Len(s) \/ s[i + Len(old)] \notin IdentChars)
         THEN new \o ReplaceIdentifier(s, old, new, i + Len(old))
         ELSE <<s[i]>> \o ReplaceIdentifier(s, old, new, i + 1)

\* The target schema with column colId of table tableId called newName, in
\* the column and in the check constraints of the table.
renameColumn(schema, tableId, colId, newName) ==
    With(schema[tableId].ColDefs[colId].Name, LAMBDA oldName :
         [schema EXCEPT ![tableId] =
             [@ EXCEPT !.ColDefs[colId].Name = newName,
                       !.CheckConstraints =
                           [i \in 1..Len(@) |-> [@[i] EXCEPT !.Expr = ReplaceAll(@, oldName, newName, 1)]]]])

\* A target table and its column, as ddl.CreateTable and ddl.ColumnDef.
SpColumn(id, name) == [Name |-> name, Id |-> id, T |-> "INT64", AutoGen |-> NoAutoGen]

SpForeignkey(id, colIds, referTableId, referColumnIds) ==
    [Id |-> id, ColIds |-> colIds, ReferTableId |-> referTableId, ReferColumnIds |-> referColumnIds]

\* The schemas under review: table t1 with the columns c1, c10 and x and
\* table t2 with the columns y and z, the keys, the index, the foreign keys
\* in both directions and the check constraint taken from small sets.
ReviewSchemas ==
    {[t1 |-> [Name |-> <<"t", "1">>, Id |-> "t1",
              ColIds |-> <<"c1", "c2", "c3">>,
              ColDefs |-> [c1 |-> SpColumn("c1", <<"c", "1">>),
                           c2 |-> SpColumn("c2", <<"c", "1", "0">>),
                           c3 |-> SpColumn("c3", <<"x">>)],
              PrimaryKeys |-> [i \in 1..Len(pk) |-> IndexKey(pk[i], FALSE, i)],
              Indexes |-> <<[Id |-> "i1", TableId |-> "t1",
                             Keys |-> [i \in 1..Len(ik) |-> IndexKey(ik[i], i = 1, i)]]>>,
              ForeignKeys |-> <<SpForeignkey("f1", SubSeq(<<"c1", "c2">>, 1, n), "t2", SubSeq(<<"c4", "c5">>, 1, n))>>,
              CheckConstraints |-> <<[Id |-> "cc1", Expr |-> expr]>>],
      t2 |-> [Name |-> <<"t", "2">>, Id |-> "t2",
              ColIds |-> <<"c4", "c5">>,
              ColDefs |-> [c4 |-> SpColumn("c4", <<"y">>), c5 |-> SpColumn("c5", <<"z">>)],
              PrimaryKeys |-> <<IndexKey("c4", FALSE, 1)>>,
              Indexes |-> <<>>,
              ForeignKeys |-> <<SpForeignkey("f2", SubSeq(<<"c4", "c5">>, 1, m), "t1", SubSeq(<<"c1", "c2">>, 1, m))>>,
              CheckConstraints |-> <<>>]] :
       pk \in {<<"c1">>, <<"c1", "c3">>, <<"c3">>},
       ik \in {<<"c1">>, <<"c2", "c1">>, <<"c2">>},
       n \in 1..2, m \in 1..2,
       expr \in {<<"c", "1", "0", ">", "c", "1">>, <<"x", "_", "1", ">", "x">>, <<"(", "c", "1", ")", ">", "y">>}}

\* The names a column may be given.
NewNames == {<<"y">>, <<"c", "2">>}

InitReview ==
    /\ summarizer = NoProject
    /\ dump = <<>>
    /\ ctx = "live"
    /\ pc = "review"
    /\ \E schema \in ReviewSchemas : conv = [MakeConv EXCEPT !.SpSchema = schema]
    /\ r = NewReader(<<>>)
    /\ stmts = <<>>
    /\ rows = <<>>
    /\ cur = NoCur
    /\ bw = NewBatchWriter
    /\ store = <<>>
    /\ handed = <<>>
    /\ writeCalls = 0
    /\ err = NoErr
    /\ db = <<>>
    /\ ret = "pending"

\* "Removed": true for one column of one table.
RemoveColumn ==
    /\ pc = "review"
    /\ \E tableId \in DOMAIN conv.SpSchema :
          \E colId \in Range(conv.SpSchema[tableId].ColIds) :
             conv' = [conv EXCEPT
                        !.SpSchema = removeColumn(@, tableId, colId),
                        !.SpSequences =
                            With(conv.SpSchema[tableId].ColDefs[colId].AutoGen, LAMBDA old :
                                 IF old.GenerationType = SEQUENCE
                                 THEN deleteColumnFromSequence(getSequenceId(old.Name, conv.SpSequences),
                                                               tableId, colId, conv.SpSequences)
                                 ELSE conv.SpSequences)]
    /\ UNCHANGED <<summarizer, dump, ctx, db, ret, pc, r, stmts, rows, cur, bw, store, handed, writeCalls, err>>

\* "Rename": newName for one column of one table; the name is not in use
\* in the table.
RenameColumn ==
    /\ pc = "review"
    /\ \E tableId \in DOMAIN conv.SpSchema :
          \E colId \in Range(conv.SpSchema[tableId].ColIds) :
             \E newName \in NewNames :
                /\ \A c \in DOMAIN conv.SpSchema[tableId].ColDefs : conv.SpSchema[tableId].ColDefs[c].Name # newName
                /\ conv' = [conv EXCEPT !.SpSchema = renameColumn(@, tableId, colId, newName)]
    /\ UNCHANGED <<summarizer, dump, ctx, db, ret, pc, r, stmts, rows, cur, bw, store, handed, writeCalls, err>>

NextReview ==
    \/ RemoveColumn
    \/ RenameColumn

SpecReview == InitReview /\ [][NextReview]_vars

\* The columns a list of keys names, in order.
KeyCols(keys) == [i \in 1..Len(keys) |-> keys[i].ColId]

\* The pairs (referring column, referenced column) of a foreign key.
FkPairs(fk) == [i \in 1..Len(fk.ColIds) |-> <<fk.ColIds[i], fk.ReferColumnIds[i]>>]

\* Table u mentions column c of table t in a primary key, an index or a
\* foreign key, on the referring or on the referenced side.
Mentions(schema, u, t, c) ==
    \/ u = t /\ c \in Range(KeyCols(schema[u].PrimaryKeys))
    \/ u = t /\ \E i \in 1..Len(schema[u].Indexes) : c \in Range(KeyCols(schema[u].Indexes[i].Keys))
    \/ u = t /\ \E i \in 1..Len(schema[u].ForeignKeys) : c \in Range(schema[u].ForeignKeys[i].ColIds)
    \/ \E i \in 1..Len(schema[u].ForeignKeys) :
          /\ schema[u].ForeignKeys[i].ReferTableId = t
          /\ c \in Range(schema[u].ForeignKeys[i].ReferColumnIds)

\* The structures of table u after column c of table t is gone: each is
\* the old one without the column, and none is empty.
Rewritten(old, new, u, t, c) ==
    /\ KeyCols(new[u].PrimaryKeys) = SelectSeq(KeyCols(old[u].PrimaryKeys), LAMBDA k : u # t \/ k # c)
    /\ \A i \in 1..Len(new[u].Indexes) : new[u].Indexes[i].Keys # <<>>
    /\ \A i \in 1..Len(new[u].ForeignKeys) : new[u].ForeignKeys[i].ColIds # <<>>
    /\ \A i \in 1..Len(old[u].Indexes) :
          With(SelectSeq(KeyCols(old[u].Indexes[i].Keys), LAMBDA k : u # t \/ k # c), LAMBDA left :
               IF left = <<>>
               THEN \A j \in 1..Len(new[u].Indexes) : new[u].Indexes[j].Id # old[u].Indexes[i].Id
               ELSE \E j \in 1..Len(new[u].Indexes) :
                       /\ new[u].Indexes[j].Id = old[u].Indexes[i].Id
                       /\ KeyCols(new[u].Indexes[j].Keys) = left)
    /\ \A i \in 1..Len(old[u].ForeignKeys) :
          With(SelectSeq(FkPairs(old[u].ForeignKeys[i]),
                         LAMBDA p : ~(u = t /\ p[1] = c) /\ ~(old[u].ForeignKeys[i].ReferTableId = t /\ p[2] = c)),
               LAMBDA left :
               IF left = <<>>
               THEN \A j \in 1..Len(new[u].ForeignKeys) : new[u].ForeignKeys[j].Id # old[u].ForeignKeys[i].Id
               ELSE \E j \in 1..Len(new[u].ForeignKeys) :
                       /\ new[u].ForeignKeys[j].Id = old[u].ForeignKeys[i].Id
                       /\ FkPairs(new[u].ForeignKeys[j]) = left)

\* C18: after a column is removed from a target table, no primary key, index
\* or foreign key of any table, on the referring or the referenced side,
\* mentions the removed column: each such structure is the old one without
\* the column, and a structure left without columns is gone.
C18_RemoveCascades ==
    [][\A t \in DOMAIN conv.SpSchema :
          \A c \in Range(conv.SpSchema[t].ColIds) \ Range(conv'.SpSchema[t].ColIds) :
             \A u \in DOMAIN conv'.SpSchema :
                /\ ~Mentions(conv'.SpSchema, u, t, c)
                /\ Rewritten(conv.SpSchema, conv'.SpSchema, u, t, c)]_vars

\* Column c1 of table t1 is gone: the primary key (c1, c3) is (c3), the index
\* (c2, c1) is (c2), the foreign key of t1 on (c1) and the foreign key of t2
\* that referred to (c1) are dropped.
C18_Witness ==
    /\ pc = "review"
    /\ conv.SpSchema["t1"].ColIds = <<"c2", "c3">>
    /\ conv.SpSchema["t1"].PrimaryKeys = <<IndexKey("c3", FALSE, 1)>>
    /\ Len(conv.SpSchema["t1"].Indexes) = 1
    /\ KeyCols(conv.SpSchema["t1"].Indexes[1].Keys) = <<"c2">>
    /\ conv.SpSchema["t1"].ForeignKeys = <<>>
    /\ conv.SpSchema["t2"].ColIds = <<"c4", "c5">>
    /\ conv.SpSchema["t2"].ForeignKeys = <<>>

\* The indexes the statements of a dump declare: CREATE INDEX, and the KEY
\* and UNIQUE clauses of CREATE TABLE and ALTER TABLE.
IndexDeclarations(d) ==
    UNION {UNION {With(d[l].stmts[s], LAMBDA st :
                CASE st.type = "CreateIndexStmt" ->
                       {[Table |-> st.Table, Name |-> st.IndexName, Keys |-> st.Keys]}
                  [] st.type = "CreateTableStmt" ->
                       {[Table |-> st.Table, Name |-> st.Constraints[i].Name, Keys |-> st.Constraints[i].Keys] :
                          i \in {j \in 1..Len(st.Constraints) : st.Constraints[j].Tp \in {"Index", "Uniq"}}}
                  [] st.type = "AlterTableStmt" ->
                       {[Table |-> st.Table, Name |-> st.Specs[i].Constraint.Name, Keys |-> st.Specs[i].Constraint.Keys] :
                          i \in {j \in 1..Len(st.Specs) :
                                    st.Specs[j].Tp = "AddConstraint" /\ st.Specs[j].Constraint.Tp \in {"Index", "Uniq"}}}
                  [] OTHER -> {}) : s \in 1..Len(d[l].stmts)} : l \in 1..Len(d)}

\* The key columns of a target table's keys, by name, with their direction.
NamedKeys(sp, keys) == [i \in 1..Len(keys) |-> <<sp.ColDefs[keys[i].ColId].Name, keys[i].Desc>>]

\* C19: for every index declared in the source, the converted target index
\* has the declared key columns in the declared order and with the declared
\* direction; the primary key (b, a) of table p keeps its column order.
C19_KeysAsDeclared ==
    \A id \in DOMAIN conv.SpSchema :
       With(conv.SpSchema[id], LAMBDA sp :
          /\ \A i \in 1..Len(sp.Indexes) :
                \A decl \in IndexDeclarations(dump) :
                   (~decl.Table.nil /\ getTableName(decl.Table).name = sp.Name /\ decl.Name = sp.Indexes[i].Name) =>
                       NamedKeys(sp, sp.Indexes[i].Keys) =
                           [k \in 1..Len(decl.Keys) |-> <<decl.Keys[k].Column, decl.Keys[k].Desc>>]
          /\ sp.Name = getTableName(TableName("p")).name =>
                NamedKeys(sp, sp.PrimaryKeys) = <<<<"b", FALSE>>, <<"a", FALSE>>>>)

AutoGens ==
    {NoAutoGen, AutoGenCol("seq1", SEQUENCE), AutoGenCol("seq2", SEQUENCE), AutoGenCol("seq9", SEQUENCE)}

InitAutoGen ==
    /\ summarizer = NoProject
    /\ dump = <<>>
    /\ ctx = "live"
    /\ pc = "review"
    /\ \E schema \in {removeColumn(s, "t2", "c5") :
                         s \in {s \in ReviewSchemas :
                                   /\ Len(s.t1.ForeignKeys[1].ColIds) = 1 /\ Len(s.t2.ForeignKeys[1].ColIds) = 1
                                   /\ Len(s.t1.Indexes[1].Keys) = 2 /\ Len(s.t1.CheckConstraints[1].Expr) = 5
                                   /\ Len(s.t1.PrimaryKeys) = 2}} :
          \E used \in BOOLEAN :
             conv = [MakeConv EXCEPT
                        !.SpSchema = IF used THEN [schema EXCEPT !.t1.ColDefs.c1.AutoGen = AutoGenCol("seq1", SEQUENCE)]
                                     ELSE schema,
                        !.SpSequences =
                            [s1 |-> [Id |-> "s1", Name |-> "seq1",
                                     ColumnsUsingSeq |-> IF used THEN [t1 |-> <<"c1">>] ELSE <<>>],
                             s2 |-> [Id |-> "s2", Name |-> "seq2", ColumnsUsingSeq |-> <<>>]]]
    /\ r = NewReader(<<>>)
    /\ stmts = <<>>
    /\ rows = <<>>
    /\ cur = NoCur
    /\ bw = NewBatchWriter
    /\ store = <<>>
    /\ handed = <<>>
    /\ writeCalls = 0
    /\ err = NoErr
    /\ db = <<>>
    /\ ret = "pending"

\* "AutoGen": autoGen for one column of one table.
UpdateAutoGen ==
    /\ pc = "review"
    /\ \E tableId \in DOMAIN conv.SpSchema :
          \E colId \in Range(conv.SpSchema[tableId].ColIds) :
             \E autoGen \in AutoGens :
                conv' = UpdateAutoGenCol(autoGen, tableId, colId, conv)
    /\ UNCHANGED <<summarizer, dump, ctx, db, ret, pc, r, stmts, rows, cur, bw, store, handed, writeCalls, err>>

NextAutoGen ==
    \/ UpdateAutoGen
    \/ RemoveColumn

SpecAutoGen == InitAutoGen /\ [][NextAutoGen]_vars

\* Sequence s lists column c of table t among the columns that use it.
Listed(sequences, s, t, c) ==
    /\ t \in DOMAIN sequences[s].ColumnsUsingSeq
    /\ c \in Range(sequences[s].ColumnsUsingSeq[t])

\* Column c of table t exists and its strategy is the sequence called name.
UsesSequence(schema, t, c, name) ==
    /\ t \in DOMAIN schema
    /\ c \in DOMAIN schema[t].ColDefs
    /\ schema[t].ColDefs[c].AutoGen = AutoGenCol(name, SEQUENCE)

\* C21: after any sequence of auto-generation updates and column removals, a
\* sequence lists a column if and only if the column exists and its strategy
\* is that sequence, and no sequence lists a column twice.
C21_SequenceColumns ==
    \A s \in DOMAIN conv.SpSequences :
       /\ \A t \in DOMAIN conv.SpSequences[s].ColumnsUsingSeq :
             \A i, j \in 1..Len(conv.SpSequences[s].ColumnsUsingSeq[t]) :
                conv.SpSequences[s].ColumnsUsingSeq[t][i] = conv.SpSequences[s].ColumnsUsingSeq[t][j] => i = j
       /\ \A t \in {"t1", "t2"} : \A c \in {"c1", "c2", "c3", "c4", "c5"} :
             Listed(conv.SpSequences, s, t, c) <=> UsesSequence(conv.SpSchema, t, c, conv.SpSequences[s].Name)

\* C29: UpdateAutoGenCol adds no sequence and removes none: a request that
\* leaves the columns of every table in place leaves the set of sequence ids
\* as it was.
C29_SequenceIdsKept ==
    [][(\A t \in DOMAIN conv.SpSchema : conv'.SpSchema[t].ColIds = conv.SpSchema[t].ColIds)
          => DOMAIN conv'.SpSequences = DOMAIN conv.SpSequences]_vars

(***************************************************************************)
(* The import of a dump of schema statements: tables with a primary key    *)
(* declared on a column, in a constraint or both, and ALTER TABLE with     *)
(* MODIFY COLUMN, followed by rows for the data pass.                      *)
(***************************************************************************)
\* CREATE TABLE q (a int PRIMARY KEY, b int REFERENCES t (a), PRIMARY KEY (b));
LCreateColPk ==
    Line(TRUE, "",
         <<CreateTableStmt(TableName("q"),
               <<ColumnDef("a", Tp("int"), <<Option("PrimaryKey")>>),
                 ColumnDef("b", Tp("int"), <<[Option("Reference") EXCEPT !.Refer = Refer("t", <<"a">>)]>>)>>,
               <<Constraint("PrimaryKey", "", <<IndexPartSpecification("b", FALSE)>>, NoRefer)>>)>>)

\* ALTER TABLE t MODIFY COLUMN a int UNIQUE;
LModifyUnique ==
    Line(TRUE, "",
         <<AlterTableStmt(TableName("t"),
               <<[Tp |-> "ModifyColumn", NewColumns |-> <<ColumnDef("a", Tp("int"), <<Option("UniqKey")>>)>>]>>)>>)

\* ALTER TABLE t MODIFY COLUMN z int;
LModifyUnknown ==
    Line(TRUE, "",
         <<AlterTableStmt(TableName("t"),
               <<[Tp |-> "ModifyColumn", NewColumns |-> <<ColumnDef("z", Tp("int"), <<>>)>>]>>)>>)

\* ALTER TABLE q MODIFY COLUMN a int PRIMARY KEY;
LModifyPk ==
    Line(TRUE, "",
         <<AlterTableStmt(TableName("q"),
               <<[Tp |-> "ModifyColumn", NewColumns |-> <<ColumnDef("a", Tp("int"), <<Option("PrimaryKey")>>)>>]>>)>>)

SchemaLines ==
    {LCreate, LCreateColPk, LCreatePk, LAlterTwo, LModifyUnique, LModifyUnknown, LModifyPk, LCreateIndex, LInsert}

SchemaDumps == UNION {[1..n -> SchemaLines] : n \in 1..MaxLines}

InitSchema ==
    /\ summarizer = NoProject
    /\ dump \in SchemaDumps
    /\ ctx = "live"
    /\ pc = "start"
    /\ conv = MakeConv
    /\ r = NewReader(<<>>)
    /\ stmts = <<>>
    /\ rows = <<>>
    /\ cur = NoCur
    /\ bw = NewBatchWriter
    /\ store = <<>>
    /\ handed = <<>>
    /\ writeCalls = 0
    /\ err = NoErr
    /\ db = <<>>
    /\ ret = "pending"

SpecSchema == InitSchema /\ [][Next]_vars

\* The column references of a source table: the columns of its primary
\* key, of its indexes' keys and of its foreign keys.
KeyRefs(t) ==
    {t.PrimaryKeys[i].ColId : i \in DOMAIN t.PrimaryKeys}
        \cup UNION {{t.Indexes[i].Keys[j].ColId : j \in DOMAIN t.Indexes[i].Keys} : i \in DOMAIN t.Indexes}
        \cup UNION {Range(t.ForeignKeys[i].ColIds) : i \in DOMAIN t.ForeignKeys}

\* C22: once the schema pass is over, every primary-key, index and
\* foreign-key entry of every source table names its columns by the id of a
\* column of that table, never by the column's name.
C22_KeysById ==
    (pc = "convert" /\ ~conv.Panic) =>
        \A id \in DOMAIN conv.SrcSchema :
            KeyRefs(conv.SrcSchema[id]) \subseteq Range(conv.SrcSchema[id].ColIds)

\* The same for the keys that the CREATE TABLE and CREATE INDEX statements
\* and the ALTER TABLE ... ADD constraints of the dump built.
C22_KeysByIdWithoutModify ==
    (pc = "convert" /\ ~conv.Panic
       /\ \A i \in DOMAIN dump : dump[i] \notin {LModifyUnique, LModifyUnknown, LModifyPk}) =>
        \A id \in DOMAIN conv.SrcSchema :
            KeyRefs(conv.SrcSchema[id]) \subseteq Range(conv.SrcSchema[id].ColIds)

\* The ids of the objects of one kind that a source table holds, in the
\* order the table lists them.
ObjectIds(t, kind) ==
    CASE kind = "column" -> t.ColIds
      [] kind = "foreign key" -> [i \in DOMAIN t.ForeignKeys |-> t.ForeignKeys[i].Id]
      [] kind = "index" -> [i \in DOMAIN t.Indexes |-> t.Indexes[i].Id]
      [] kind = "check" -> [i \in DOMAIN t.CheckConstraints |-> t.CheckConstraints[i].Id]

ObjectKinds == {"column", "foreign key", "index", "check"}

\* Every object of the schema has a non-empty id that no other object of
\* its kind has, and a column definition carries the id it is stored under.
IdsGiven(schema) ==
    \A id \in DOMAIN schema :
        /\ id # "" /\ schema[id].Id = id
        /\ \A c \in DOMAIN schema[id].ColDefs : c # "" /\ schema[id].ColDefs[c].Id = c
        /\ \A kind \in ObjectKinds :
              With(ObjectIds(schema[id], kind), LAMBDA ids :
                 /\ \A i \in DOMAIN ids : ids[i] # ""
                 /\ \A i, j \in DOMAIN ids : ids[i] = ids[j] => i = j
                 /\ \A other \in DOMAIN schema \ {id} :
                       Range(ids) \cap Range(ObjectIds(schema[other], kind)) = {})

\* Every object of schema is in after, under the id it had.
IdsKept(schema, after) ==
    \A id \in DOMAIN schema :
        /\ id \in DOMAIN after
        /\ \A kind \in ObjectKinds :
              With(ObjectIds(schema[id], kind), LAMBDA ids :
                 /\ Len(ObjectIds(after[id], kind)) >= Len(ids)
                 /\ SubSeq(ObjectIds(after[id], kind), 1, Len(ids)) = ids)

\* C23: every table, column, foreign key, index and check constraint of the
\* source schema has, from its creation on, a non-empty id that nothing else
\* in the run has, and no later statement changes that id.
C23_IdsGivenAndKept ==
    /\ [](~conv.Panic => IdsGiven(conv.SrcSchema))
    /\ [][~conv'.Panic => IdsKept(conv.SrcSchema, conv'.SrcSchema)]_vars

\* The same for dumps with neither a column-level REFERENCES nor a MODIFY
\* COLUMN.
C23_IdsOfConstraints ==
    /\ []((~conv.Panic /\ \A i \in DOMAIN dump :
               dump[i] \notin {LCreateColPk, LModifyUnique, LModifyUnknown, LModifyPk})
            => IdsGiven(conv.SrcSchema))
    /\ [][~conv'.Panic => IdsKept(conv.SrcSchema, conv'.SrcSchema)]_vars

\* C30: during and after the schema pass the column definitions of each
\* source table are stored under exactly the ids of its column-id list,
\* none of them empty; a MODIFY COLUMN of a column the table lacks adds none.
C30_ColDefsOfColIds ==
    ~conv.Panic =>
        \A id \in DOMAIN conv.SrcSchema :
            /\ DOMAIN conv.SrcSchema[id].ColDefs = Range(conv.SrcSchema[id].ColIds)
            /\ "" \notin Range(conv.SrcSchema[id].ColIds)

\* The same for dumps in which no MODIFY COLUMN names a column the table
\* lacks.
C30_ColDefsOfKnownColumns ==
    (~conv.Panic /\ \A i \in DOMAIN dump : dump[i] # LModifyUnknown) =>
        \A id \in DOMAIN conv.SrcSchema :
            /\ DOMAIN conv.SrcSchema[id].ColDefs = Range(conv.SrcSchema[id].ColIds)
            /\ "" \notin Range(conv.SrcSchema[id].ColIds)

HasOption(col, tp) == \E i \in DOMAIN col.Options : col.Options[i].Tp = tp

KeyColumns(keys) == [i \in DOMAIN keys |-> keys[i].Column]

\* The primary-key declarations of a statement, each the names of its
\* columns, in the order the statement is processed: the columns declared
\* PRIMARY KEY, then the PRIMARY KEY constraints; for ALTER TABLE the
\* clauses in order.
PkDeclarations(stmt) ==
    IF stmt.type = "CreateTableStmt"
    THEN With(SelectSeq(stmt.Cols, LAMBDA col : HasOption(col, "PrimaryKey")), LAMBDA cols :
              (IF cols = <<>> THEN <<>> ELSE <<[i \in DOMAIN cols |-> cols[i].Name]>>)
              \o Flatten([i \in DOMAIN stmt.Constraints |->
                             IF stmt.Constraints[i].Tp = "PrimaryKey"
                             THEN <<KeyColumns(stmt.Constraints[i].Keys)>> ELSE <<>>]))
    ELSE IF stmt.type = "AlterTableStmt"
    THEN Flatten([i \in DOMAIN stmt.Specs |->
                     IF stmt.Specs[i].Tp = "AddConstraint" /\ stmt.Specs[i].Constraint.Tp = "PrimaryKey"
                     THEN <<KeyColumns(stmt.Specs[i].Constraint.Keys)>>
                     ELSE IF stmt.Specs[i].Tp = "ModifyColumn" /\ HasOption(stmt.Specs[i].NewColumns[1], "PrimaryKey")
                     THEN <<<<stmt.Specs[i].NewColumns[1].Name>>>>
                     ELSE <<>>])
    ELSE <<>>

\* The tables a schema statement can act on: the one CREATE TABLE makes,
\* a table of that name for ALTER TABLE.
StmtTargets(cv, stmt) ==
    IF stmt.type = "CreateTableStmt" THEN {GenerateId(cv, "t")}
    ELSE TableIdsByName(cv.SrcSchema, StmtTable(stmt))

\* The names of the primary-key columns of a source table, in key order.
PkNames(t) == [i \in DOMAIN t.PrimaryKeys |-> Get(t.ColDefs, t.PrimaryKeys[i].ColId, ZeroColumn).Name]

\* C25: a statement of the schema pass that declares a primary key for a
\* table which has one already, or declares more than one, leaves the table
\* with exactly the last declared key, records a warning for each key it
\* discards, and raises no error: the pass goes on.
C25_LastPrimaryKeyWins ==
    [][(pc = "stmt" /\ SchemaMode(conv) /\ stmts # <<>>) =>
         With(PkDeclarations(stmts[1]), LAMBDA decl :
            decl # <<>> =>
               \A tid \in StmtTargets(conv, stmts[1]) :
                  With(Len(decl) - (IF Get(conv.SrcSchema, tid, ZeroTable).PrimaryKeys = <<>> THEN 1 ELSE 0),
                       LAMBDA discarded :
                     (/\ discarded > 0
                      /\ \/ StmtTargets(conv, stmts[1]) = {tid}
                         \/ Get(conv'.SrcSchema, tid, ZeroTable) # conv.SrcSchema[tid]) =>
                        /\ tid \in DOMAIN conv'.SrcSchema
                        /\ PkNames(conv'.SrcSchema[tid]) = decl[Len(decl)]
                        /\ conv'.Unexpecteds >= conv.Unexpecteds + discarded
                        /\ ~conv'.Panic /\ pc' \in {"stmt", "read"} /\ err' = err))]_vars

\* Table q of CREATE TABLE q (a int PRIMARY KEY, ..., PRIMARY KEY (b)) at
\* the end of a schema pass that met no error: its key is b alone or, after
\* ALTER TABLE q MODIFY COLUMN a int PRIMARY KEY, a alone; a warning is
\* recorded.
C25_Witness ==
    /\ pc = "convert" /\ err = NoErr /\ conv.Unexpecteds > 0
    /\ \E tid \in DOMAIN conv.SrcSchema :
          /\ conv.SrcSchema[tid].Name = <<"q">>
          /\ Len(conv.SrcSchema[tid].ColIds) = 2
          /\ PkNames(conv.SrcSchema[tid]) = <<"b">>
    /\ \E tid \in DOMAIN conv.SrcSchema :
          /\ conv.SrcSchema[tid].Name = <<"q">>
          /\ PkNames(conv.SrcSchema[tid]) = <<"a">>

(***************************************************************************)
(* The import of a dump that holds stored programs between DELIMITER       *)
(* lines, as mysqldump writes routines, triggers and events.               *)
(***************************************************************************)
MaxDelimLines == 4

\* DELIMITER ;;   and   DELIMITER ;   (the parser rejects both; the chunk
\* is told apart only by how often it holds the word)
LDelimiter == [Line(TRUE, "delimiter", <<>>) EXCEPT !.ndelim = 1, !.words = {"delimiter"}]

\* CREATE PROCEDURE p() BEGIN DELETE FROM t; END ;;
LProcedure == [Line(TRUE, "unsupported", <<>>) EXCEPT !.words = {"create", "procedure"}]

\* CREATE EVENT e ON SCHEDULE EVERY 1 DAY DO BEGIN DELETE FROM t; END ;;
LEvent == [Line(TRUE, "syntax", <<>>) EXCEPT !.words = {"create", "event"}]

DelimLines == {LDelimiter, LProcedure, LEvent, LCreate, LInsert}

DelimDumps == UNION {[1..n -> DelimLines] : n \in 1..MaxDelimLines}

InitDelim ==
    /\ summarizer = NoProject
    /\ dump \in DelimDumps
    /\ ctx = "live"
    /\ pc = "start"
    /\ conv = MakeConv
    /\ r = NewReader(<<>>)
    /\ stmts = <<>>
    /\ rows = <<>>
    /\ cur = NoCur
    /\ bw = NewBatchWriter
    /\ store = <<>>
    /\ handed = <<>>
    /\ writeCalls = 0
    /\ err = NoErr
    /\ db = <<>>
    /\ ret = "pending"

SpecDelim == InitDelim /\ [][Next]_vars

\* The DELIMITER lines of the dump after line i.
DelimitersAfter(i) == {j \in (i + 1)..Len(dump) : dump[j].ndelim > 0}

\* The step counts one more skipped statement, of one type.
SkippedOne ==
    \E ty \in DOMAIN conv.Statement :
        /\ conv'.Statement[ty].Skip = conv.Statement[ty].Skip + 1
        /\ \A other \in DOMAIN conv.Statement \ {ty} : conv'.Statement[other] = conv.Statement[other]

\* C24: a chunk that begins with a DELIMITER line ends with the next
\* DELIMITER line of the dump, whatever terminators the lines between them
\* hold; it yields no statement and no error, the region is counted as one
\* skipped statement, and the next chunk begins with the line after it.
\* Without a second DELIMITER line no statement is emitted at all.
C24_DelimiterRegion ==
    [][(pc = "read" /\ r.pos <= Len(dump) /\ dump[r.pos].ndelim > 0) =>
          /\ stmts' = <<>>
          /\ DelimitersAfter(r.pos) # {} =>
                /\ \A j \in DelimitersAfter(r.pos) : r'.pos <= j + 1
                /\ r'.pos - 1 \in DelimitersAfter(r.pos)
                /\ err' = err
                /\ SkippedOne
                /\ pc' \in {"read", "eof"}]_vars

\* The same for regions that name a trigger, a procedure or a function.
C24_RoutineRegion ==
    [][(/\ pc = "read" /\ r.pos <= Len(dump) /\ dump[r.pos].ndelim > 0
        /\ DelimitersAfter(r.pos) # {}
        /\ \A j \in DelimitersAfter(r.pos) :
              (\A k \in DelimitersAfter(r.pos) : j <= k) =>
                 \E i \in (r.pos + 1)..(j - 1) : dump[i].words \cap {"trigger", "procedure", "function"} # {}) =>
          /\ stmts' = <<>>
          /\ \A j \in DelimitersAfter(r.pos) : r'.pos <= j + 1
          /\ r'.pos - 1 \in DelimitersAfter(r.pos)
          /\ err' = err
          /\ SkippedOne
          /\ pc' \in {"read", "eof"}]_vars

(***************************************************************************)
(* Termination of processMySQLDump: what is left of the dump, of the chunk *)
(* and of the statement gets smaller with every step of its loops.         *)
(***************************************************************************)
\* The lines not read yet, and one more while the end of the stream has
\* not been met.
LeftToRead(rd) == (Len(rd.dump) + 1 - rd.pos) + (IF rd.EOF THEN 0 ELSE 1)

\* <<a1, a2, a3>> comes before <<b1, b2, b3>> in the lexicographic order.
LexLess(a, b) ==
    \/ a[1] < b[1]
    \/ a[1] = b[1] /\ a[2] < b[2]
    \/ a[1] = b[1] /\ a[2] = b[2] /\ a[3] < b[3]

\* C26: in either pass, processMySQLDump ends.  It never reads on once the
\* end of the stream is met; every chunk read consumes at least one more
\* line or meets the end of the stream, and ends with statements handed on
\* or with the end-of-stream error; and every step of the loops over the
\* chunks, the statements of a chunk and the rows of a statement leaves
\* less to read, or as much to read and fewer statements, or as much of
\* both and fewer rows, whatever repair was tried on the chunk (the write
\* calls of a batch in flight leave all three as they are), or leaves the
\* loops.
C26_ProcessDumpTerminates ==
    /\ [](pc = "read" => ~r.EOF /\ r.pos <= Len(r.dump) + 1)
    /\ [][(pc = "read" /\ bw.state = "idle") =>
             /\ r'.pos > r.pos \/ r'.EOF
             /\ \/ pc' \in {"stmt", "read", "eof"} /\ err' = err
                \/ pc' = "failed" /\ r'.EOF /\ err'.lines > 0]_vars
    /\ [][(pc = "read" \/ pc = "stmt" \/ pc = "rows") =>
             \/ <<pc, r, stmts, rows>>' = <<pc, r, stmts, rows>>
             \/ pc' \notin {"read", "stmt", "rows"}
             \/ LexLess(<<LeftToRead(r'), Len(stmts'), Len(rows')>>,
                        <<LeftToRead(r), Len(stmts), Len(rows)>>)]_vars

\* The data pass of a dump whose chunks needed every repair: a line that no
\* heuristic repairs was read on with the next, and an INSERT with a bad
\* tuple was taken apart; the pass is over.
C26_Witness ==
    /\ pc = "flush" /\ DataMode(conv)
    /\ r.EOF /\ r.pos = Len(dump) + 1
    /\ conv.Reparsed > 0
    /\ \E i \in DOMAIN dump : dump[i] = LInsertSyn
    /\ \E i \in DOMAIN dump : dump[i] = LJunk

\* C27: at the end of a run no table has more bad rows recorded than rows.
C27_BadRowsWithinRows ==
    pc = "done" =>
        \A name \in DOMAIN conv.BadRows : conv.BadRows[name] <= Get(conv.Rows, name, 0)

\* The same for the tables that the data pass finds in the source schema.
C27_BadRowsOfKnownTables ==
    pc = "done" =>
        \A name \in DOMAIN conv.BadRows :
            TableIdsByName(conv.SrcSchema, name) # {} => conv.BadRows[name] <= Get(conv.Rows, name, 0)

(***************************************************************************)
(* The assessment of application code (assessment package): the            *)
(* dependency graph of a project, the execution order computed from it and *)
(* the analysis of the files batch by batch.  A graph maps a file to the   *)
(* files it depends on; files are numbered.                                *)
(***************************************************************************)
MaxFiles == 3

Files == 1..MaxFiles

\* What getDependencyGraph collects: no file depends on itself.
Projects == {g \in [Files -> SUBSET Files] : \A f \in Files : f \notin g[f]}

RECURSIVE Reaches(_, _, _, _)
\* A path of at most n edges from file a to file b.
Reaches(g, a, b, n) == a = b \/ (n > 0 /\ \E x \in g[a] : Reaches(g, x, b, n - 1))

\* AddEdge of a graph that prevents cycles refuses the edge from file to
\* dependency when dependency already reaches file.
CreatesCycle(g, file, dependency) == Reaches(g, dependency, file, Cardinality(DOMAIN g))

RECURSIVE RemoveCycleFrom(_, _, _, _, _)
\* The graphs the loops of RemoveCycle can end with: files are the files
\* not visited yet, file is the one being visited and deps its dependencies
\* not visited yet.  The loops range over maps, in no fixed order.
RemoveCycleFrom(withCycle, dependencyGraph, files, file, deps) ==
    IF deps # {}
    THEN UNION {RemoveCycleFrom(withCycle,
                    IF CreatesCycle(dependencyGraph, file, dependency)
                    THEN dependencyGraph
                    ELSE [dependencyGraph EXCEPT ![file] = @ \cup {dependency}],
                    files, file, deps \ {dependency}) : dependency \in deps}
    ELSE IF files = {} THEN {dependencyGraph}
    ELSE UNION {RemoveCycleFrom(withCycle, dependencyGraph, files \ {f}, f, withCycle[f]) : f \in files}

RemoveCycle(fileDependenciesMapWithCycle) ==
    RemoveCycleFrom(fileDependenciesMapWithCycle,
                    [f \in DOMAIN fileDependenciesMapWithCycle |-> {}],
                    DOMAIN fileDependenciesMapWithCycle, 0, {})

\* The number of files that depend on node.
inDegree(G, node) == Cardinality({n \in DOMAIN G : node \in G[n]})

maxDegree(G) ==
    IF DOMAIN G = {} THEN 0
    ELSE CHOOSE d \in {inDegree(G, n) : n \in DOMAIN G} : \A n \in DOMAIN G : inDegree(G, n) <= d

\* TopologicalSort: level maxDegree - inDegree of a file, counted from 1;
\* a level is the set of its files (their order within it is that of a map).
TopologicalSort(G) ==
    [level \in 1..(maxDegree(G) + 1) |->
        {node \in DOMAIN G : maxDegree(G) - inDegree(G, node) = level - 1}]

InitAnalyze ==
    /\ pc = "project"
    /\ \E g \in Projects :
          summarizer = [withCycles |-> g, dependencyGraph |-> <<>>, processingOrder |-> <<>>,
                        batch |-> 0, fileDependencyAnalysis |-> {}, examined |-> <<>>]
    /\ dump = <<>>
    /\ ctx = "live"
    /\ conv = MakeConv
    /\ r = NewReader(<<>>)
    /\ stmts = <<>>
    /\ rows = <<>>
    /\ cur = NoCur
    /\ bw = NewBatchWriter
    /\ store = <<>>
    /\ handed = <<>>
    /\ writeCalls = 0
    /\ err = NoErr
    /\ db = <<>>
    /\ ret = "pending"

\* GetExecutionOrder, as AnalyzeProject calls it: the graph without its
\* cycles and the batches sorted from it.
GetExecutionOrder ==
    /\ pc = "project"
    /\ \E G \in RemoveCycle(summarizer.withCycles) :
          summarizer' = [summarizer EXCEPT !.dependencyGraph = G,
                                           !.processingOrder = TopologicalSort(G),
                                           !.batch = 1]
    /\ pc' = "batches"
    /\ UNCHANGED <<dump, ctx, db, ret, conv, r, stmts, rows, cur, bw, store, handed, writeCalls, err>>

\* One iteration of the loop of AnalyzeProject over the batches: every file
\* of the batch is examined with the analyses recorded so far, then the
\* analyses of the batch are recorded.
AnalyzeBatch ==
    /\ pc = "batches"
    /\ summarizer.batch <= Len(summarizer.processingOrder)
    /\ With(summarizer.processingOrder[summarizer.batch], LAMBDA fileBatch :
          summarizer' = [summarizer EXCEPT
              !.examined = [f \in DOMAIN @ \cup fileBatch |->
                               IF f \in fileBatch THEN summarizer.fileDependencyAnalysis ELSE @[f]],
              !.fileDependencyAnalysis = @ \cup fileBatch,
              !.batch = @ + 1])
    /\ UNCHANGED <<pc, dump, ctx, db, ret, conv, r, stmts, rows, cur, bw, store, handed, writeCalls, err>>

\* The return of AnalyzeProject after the last batch.
AnalyzeReturn ==
    /\ pc = "batches"
    /\ summarizer.batch > Len(summarizer.processingOrder)
    /\ pc' = "analyzed"
    /\ UNCHANGED <<summarizer, dump, ctx, db, ret, conv, r, stmts, rows, cur, bw, store, handed, writeCalls, err>>

NextAnalyze ==
    \/ GetExecutionOrder
    \/ AnalyzeBatch
    \/ AnalyzeReturn

SpecAnalyze == InitAnalyze /\ [][NextAnalyze]_vars

\* The batches of the execution order that hold file f.
BatchesOf(f) == {i \in DOMAIN summarizer.processingOrder : f \in summarizer.processingOrder[i]}

\* C28: in the execution order every file of the dependency graph is in
\* exactly one batch, and in a later batch than every file it depends on;
\* so a file is examined only when the analyses of all the files it depends
\* on are recorded.
C28_ExecutionOrder ==
    pc \in {"batches", "analyzed"} =>
        /\ \A f \in DOMAIN summarizer.dependencyGraph :
              /\ Cardinality(BatchesOf(f)) = 1
              /\ \A dependency \in summarizer.dependencyGraph[f] :
                    \A i \in BatchesOf(f) : \A j \in BatchesOf(dependency) : j < i
        /\ \A f \in DOMAIN summarizer.examined :
              summarizer.dependencyGraph[f] \subseteq summarizer.examined[f]

\* Every file is in exactly one batch, and the graph that is sorted has no
\* cycle.
C28_EveryFileInOneBatch ==
    pc \in {"batches", "analyzed"} =>
        \A f \in DOMAIN summarizer.dependencyGraph :
            /\ Cardinality(BatchesOf(f)) = 1
            /\ \A dependency \in summarizer.dependencyGraph[f] :
                  ~Reaches(summarizer.dependencyGraph, dependency, f, MaxFiles)
====
